---------------------------- MODULE Spec2Model ----------------------------
(***************************************************************************)
(* Model of the devservers daemon: the dependency graph and the start /    *)
(* stop / restart request handlers that traverse it, the tmux adapter      *)
(* (session, windows, panes), the port registry file and the status        *)
(* mapping.  Every await of the TypeScript source is one step of a         *)
(* request; the tmux session, the registry file and the configuration file *)
(* are shared state that concurrent requests and the outside world change  *)
(* between two steps.                                                      *)
(***************************************************************************)
EXTENDS Integers, Sequences, FiniteSets, TLC

\* ------------------------------------------------------------------ bounds

\* How many services a catalog of the model holds.
MaxServices == 3

\* How many requests the daemon serves concurrently in one behaviour.
MaxRequests == 2

\* How many changes the outside world makes to the tmux session.
MaxEnv == 1

\* How many direct calls of ensureRegistryPort follow each other.
MaxCalls == 2

\* How many rounds of polling fit into PORT_DETECT_TIMEOUT_MS.
PollBudget == 2

\* ------------------------------------------------------ program constants

DEFAULT_REGISTRY_PORT == 3100

MAX_PORT == 65535

DEFAULT_PORT_MODE == "static"

\* The shells a list without fish would hold.
ShellsWithoutFish == {"zsh", "bash", "sh"}

IDLE_COMMANDS == {"zsh", "bash", "sh", "fish"}

\* JavaScript's undefined for an optional number (a port that is not set).
Undefined == 0 - 1

\* ------------------------------------------------------------ small helpers

Range(s) == {s[i] : i \in 1..Len(s)}

Reverse(s) == [i \in 1..Len(s) |-> s[Len(s) + 1 - i]]

\* Position of the first occurrence of x in s, 0 when absent (Array.indexOf + 1).
IndexOf(s, x) ==
    IF x \in Range(s) THEN CHOOSE i \in 1..Len(s) : s[i] = x /\ \A j \in 1..(i - 1) : s[j] # x
    ELSE 0

\* s without the elements that fail keep (Array.filter).
RECURSIVE FilterSeq(_, _)
FilterSeq(s, keep) ==
    IF s = <<>> THEN <<>>
    ELSE IF Head(s) \in keep THEN <<Head(s)>> \o FilterSeq(Tail(s), keep)
    ELSE FilterSeq(Tail(s), keep)

\* ------------------------------------------------------------- the catalog

ServiceNames == <<"db", "api", "web", "job">>

Names == {ServiceNames[i] : i \in 1..MaxServices}

\* The services in the order of the configuration file.
CatalogOrder == [i \in 1..MaxServices |-> ServiceNames[i]]

\* ---------------------------------------------------- the dependency graph

order(services) == [i \in 1..Len(services) |-> services[i].name]

hasService(services, name) == \E i \in 1..Len(services) : services[i].name = name

\* services.find(...): the first service of that name.
findService(services, name) == services[IndexOf(order(services), name)]

depsByName(services) ==
    [n \in Range(order(services)) |-> findService(services, n).dependsOn]

\* dependentsByName: for each service in catalog order, its name is pushed
\* onto the list of each of its dependencies.
dependentsByName(services) ==
    [n \in Range(order(services)) |->
        FilterSeq(order(services),
                  {m \in Range(order(services)) : n \in Range(depsByName(services)[m])})]

\* A check that finds no duplicate.
noDuplicates(deps) == FALSE

hasDuplicates(deps) == \E i, j \in 1..Len(deps) : i < j /\ deps[i] = deps[j]

\* The first check of createDependencyGraph's loop that service i fails.
serviceDefect(services, i) ==
    LET deps == services[i].dependsOn IN
    IF hasDuplicates(deps) THEN "duplicate"
    ELSE IF services[i].name \in Range(deps) THEN "self"
    ELSE IF \E d \in Range(deps) : ~hasService(services, d) THEN "missing"
    ELSE "none"

\* createDependencyGraph's visit: depth-first along depsByName with the
\* stack of the names being visited; meeting a name of the stack gives the
\* cycle (the stack from that name on, and the name again), which is thrown.
RECURSIVE cycleVisit(_, _, _)
RECURSIVE cycleVisitAll(_, _, _, _)
cycleVisit(G, st, name) ==
    IF st.cycle # <<>> \/ name \in st.visited THEN st
    ELSE IF name \in Range(st.stack)
    THEN [st EXCEPT !.cycle = SubSeq(st.stack, IndexOf(st.stack, name), Len(st.stack))
                              \o <<name>>]
    ELSE LET st1 == cycleVisitAll(G, [st EXCEPT !.stack = Append(@, name)], G[name], 1)
         IN  IF st1.cycle # <<>> THEN st1
             ELSE [st1 EXCEPT !.stack = SubSeq(@, 1, Len(@) - 1),
                              !.visited = @ \cup {name}]

cycleVisitAll(G, st, list, i) ==
    IF i > Len(list) THEN st
    ELSE cycleVisitAll(G, cycleVisit(G, st, list[i]), list, i + 1)

\* The cycle createDependencyGraph reports for services that passed the
\* checks of each service; <<>> when there is none.
dependencyCycle(services) ==
    cycleVisitAll(depsByName(services), [visited |-> {}, stack |-> <<>>, cycle |-> <<>>],
                  order(services), 1).cycle

hasCycle(services) == dependencyCycle(services) # <<>>

\* createDependencyGraph: "none" when the graph is built, else the kind of
\* the error it throws.
createDependencyGraph(services) ==
    LET bad == {i \in 1..Len(services) : serviceDefect(services, i) # "none"} IN
    IF bad # {} THEN serviceDefect(services, CHOOSE i \in bad : \A j \in bad : i <= j)
    ELSE IF hasCycle(services) THEN "cycle"
    ELSE "none"

\* collectDependencies / collectDependents: depth-first from `name` along
\* G, each name added when first met; the result in insertion order.
RECURSIVE collectVisit(_, _, _)
RECURSIVE collectVisitAll(_, _, _, _)
collectVisit(G, result, target) ==
    IF target \in Range(result) THEN result
    ELSE collectVisitAll(G, Append(result, target), G[target], 1)

collectVisitAll(G, result, list, i) ==
    IF i > Len(list) THEN result
    ELSE collectVisitAll(G, collectVisit(G, result, list[i]), list, i + 1)

collectDependencies(services, name) == collectVisit(depsByName(services), <<>>, name)

collectDependents(services, name) == collectVisit(dependentsByName(services), <<>>, name)

\* The dependencies of `name` with `name` itself, in the order collected.
withSelf(services, name) == collectDependencies(services, name)

\* The restart handler's dependencyNames: the dependencies of `name`
\* without `name` itself.
strictDependencies(services, name) ==
    FilterSeq(collectDependencies(services, name), Range(order(services)) \ {name})

\* topoSort: depth-first post-order over graph.order, restricted to `names`.
RECURSIVE topoVisit(_, _, _, _)
RECURSIVE topoVisitAll(_, _, _, _, _)
topoVisit(G, allowed, st, name) ==
    IF name \notin allowed \/ name \in st.visited THEN st
    ELSE LET st1 == [st EXCEPT !.visited = @ \cup {name}]
             st2 == topoVisitAll(G, allowed, st1, G[name], 1)
         IN  [st2 EXCEPT !.result = Append(@, name)]

topoVisitAll(G, allowed, st, list, i) ==
    IF i > Len(list) THEN st
    ELSE topoVisitAll(G, allowed, topoVisit(G, allowed, st, list[i]), list, i + 1)

\* The names as they are given, unsorted: what a traversal without topoSort
\* would follow.
givenOrder(services, names) == names

topoSort(services, names) ==
    topoVisitAll(depsByName(services), Range(names),
                 [visited |-> {}, result |-> <<>>], order(services), 1).result

\* ------------------------------------------------------- the catalog store

\* A replacement that takes the new definition as it is.
asGiven(service, existing) == service

\* { ...service, lastStartedAt: service.lastStartedAt ?? existing.lastStartedAt }
\* on services that carry the field, 0 standing for an absent one (where
\* the model keeps the stamps in lastStartedAt, the bodies carry none and
\* the stamps stay as they are).
keepLastStartedAt(service, existing) ==
    IF "lastStartedAt" \notin DOMAIN service THEN service
    ELSE IF service.lastStartedAt # 0 THEN service
    ELSE [service EXCEPT !.lastStartedAt = existing.lastStartedAt]

\* upsertService: the service replaces the one of its name in place, or is
\* appended.
upsertService(config, service) ==
    IF hasService(config, service.name)
    THEN [i \in 1..Len(config) |->
             IF i = IndexOf(order(config), service.name)
             THEN keepLastStartedAt(service, config[i]) ELSE config[i]]
    ELSE Append(config, service)

RECURSIVE removeService(_, _)
removeService(config, name) ==
    IF config = <<>> THEN <<>>
    ELSE IF Head(config).name = name THEN removeService(Tail(config), name)
    ELSE <<Head(config)>> \o removeService(Tail(config), name)

\* A merge that takes every service as it comes.
mergeUnchecked(config, composeServices) ==
    [threw |-> FALSE, services |-> config \o composeServices,
     sources |-> [n \in Range(order(config \o composeServices)) |->
                     IF hasService(config, n) THEN "config" ELSE "compose"]]

\* buildCatalogFromConfig after the sync of the compose cache: the config
\* services, then the compose services, each name tagged with its source;
\* a name met twice throws.
buildCatalogFromConfig(config, composeServices) ==
    LET all == config \o composeServices IN
    IF \E i, j \in 1..Len(all) : i < j /\ all[i].name = all[j].name
    THEN [threw |-> TRUE, services |-> <<>>, sources |-> <<>>]
    ELSE [threw |-> FALSE, services |-> all,
          sources |-> [n \in Range(order(all)) |->
                          IF hasService(config, n) THEN "config" ELSE "compose"]]

\* A catalog check that counts every service as config-sourced.
noComposeManagedService(sources, serviceName) == FALSE

\* resolveSourceMeta(...).source === "compose": a name without source
\* counts as config-sourced.
isComposeManagedService(sources, serviceName) ==
    IF serviceName \in DOMAIN sources THEN sources[serviceName] = "compose" ELSE FALSE

\* A graph check that accepts every catalog.
acceptedGraph(services) == "none"

\* The createDependencyGraph call of POST /services and PUT /services/:name.
validateGraph(services) == createDependencyGraph(services)

\* Map.delete(name)
withoutKey(map, name) == [n \in DOMAIN map \ {name} |-> map[n]]

\* --------------------------------------------------------- the port registry

\* The registry file: missing, unparseable, or a map from names to ports.
EmptyPorts == [n \in {} |-> 0]

MissingFile == [state |-> "missing", ports |-> EmptyPorts]

InvalidFile == [state |-> "invalid", ports |-> EmptyPorts]

PortsFile(ports) == [state |-> "ok", ports |-> ports]

\* { ...ports, [name]: port }
withPort(ports, name, port) ==
    [n \in DOMAIN ports \cup {name} |-> IF n = name THEN port ELSE ports[n]]

\* A lookup that finds no entry.
noEntry(ports, name) == 0 - 1

\* registry.ports[serviceName]
portOf(ports, name) == IF name \in DOMAIN ports THEN ports[name] ELSE Undefined

normalizePort(port) ==
    IF port <= 0 \/ port > MAX_PORT THEN Undefined ELSE port

buildReservedPorts(ports) == {p \in ports : normalizePort(p) # Undefined}

\* The scan of findNextAvailablePort from `port` upward; Undefined when it
\* runs past the last port (the function throws).  checkAvailability(p)
\* succeeds exactly for the ports outside `taken`.
RECURSIVE scanPorts(_, _, _)
scanPorts(port, usedPorts, taken) ==
    IF port > MAX_PORT THEN Undefined
    ELSE IF port \in usedPorts THEN scanPorts(port + 1, usedPorts, taken)
    ELSE IF port \notin taken THEN port
    ELSE scanPorts(port + 1, usedPorts, taken)

\* The start of the scan itself, without scan.
startItself(start, usedPorts, taken) == start

findNextAvailablePort(start, usedPorts, taken) ==
    LET normalizedStart ==
            IF normalizePort(start) = Undefined THEN DEFAULT_REGISTRY_PORT
            ELSE normalizePort(start)
    IN  scanPorts(normalizedStart, usedPorts, taken)

\* options.preferredPort ?? options.basePort ?? DEFAULT_REGISTRY_PORT
firstDefined(preferredPort, basePort) ==
    IF preferredPort # Undefined THEN preferredPort
    ELSE IF basePort # Undefined THEN basePort
    ELSE DEFAULT_REGISTRY_PORT

\* The port ensureRegistryPort assigns to a name that has no entry in
\* `ports` (lines 170-181); Undefined when findNextAvailablePort throws.
assignPort(ports, preferredPort, basePort, reservedPorts, taken) ==
    LET usedPorts == {ports[n] : n \in DOMAIN ports} \cup buildReservedPorts(reservedPorts)
        preferred == normalizePort(firstDefined(preferredPort, basePort))
    IN  findNextAvailablePort(IF preferred = Undefined THEN DEFAULT_REGISTRY_PORT
                              ELSE preferred,
                              usedPorts, taken)

\* ensureRegistryPort run without interruption on `file`: what it returns
\* (port; Undefined with threw = TRUE when it throws), the file it leaves
\* and how many times it wrote the file.
ensureRegistryPort(file, serviceName, preferredPort, basePort, reservedPorts, taken) ==
    IF file.state = "invalid"
    THEN [threw |-> TRUE, port |-> Undefined, created |-> FALSE, file |-> file, writes |-> 0]
    ELSE LET made == IF file.state = "missing" THEN 1 ELSE 0
             ports == file.ports
             existing == portOf(ports, serviceName)
             assigned == assignPort(ports, preferredPort, basePort, reservedPorts, taken)
         IN  IF existing # Undefined
             THEN [threw |-> FALSE, port |-> existing, created |-> FALSE,
                   file |-> file, writes |-> 0]
             ELSE IF assigned = Undefined
             THEN [threw |-> TRUE, port |-> Undefined, created |-> FALSE,
                   file |-> PortsFile(ports), writes |-> made]
             ELSE [threw |-> FALSE, port |-> assigned, created |-> TRUE,
                   file |-> PortsFile(withPort(ports, serviceName, assigned)),
                   writes |-> made + 1]

\* A start that reserves nothing.
noReservedPorts(services, currentName) == {}

\* collectReservedPorts: the declared ports of every other service.
collectReservedPorts(services, currentName) ==
    {services[i].port : i \in {j \in 1..Len(services) :
        services[j].name # currentName /\ services[j].port # Undefined}}

resolvePortMode(service) ==
    IF service.portMode = "undefined" THEN DEFAULT_PORT_MODE ELSE service.portMode

\* resolveServicePort with an empty runtimeDetectedPorts map.
resolveServicePort(service, registryPorts) ==
    IF resolvePortMode(service) = "registry" THEN portOf(registryPorts, service.name)
    ELSE service.port

isValidPort(value) == value # Undefined /\ value > 0 /\ value <= MAX_PORT

\* resolveServicePorts: every service's port, the started service's own
\* resolved port over it when that one is valid.
resolveServicePorts(services, registryPorts, name, resolvedPort) ==
    [n \in Range(order(services)) |->
        IF n = name /\ isValidPort(resolvedPort) THEN resolvedPort
        ELSE resolveServicePort(findService(services, n), registryPorts)]

\* ------------------------------------------------------------------- tmux

\* A pane: whether tmux reports it dead, and its pane_current_command.
ShellPane == [dead |-> FALSE, cmd |-> "zsh"]

\* The command of a service as pane_current_command shows it once typed.
ServiceCommand == "node"

\* The window a target "devservers:<name>" resolves to when k windows carry
\* the name: 0 is "can't find window" (the command fails).  tmux refuses an
\* ambiguous name in some versions and picks one window in others.
targetOutcomes(k) == IF k = 0 THEN {0} ELSE IF k = 1 THEN {1} ELSE 0..k

removeAt(s, i) == [j \in 1..(Len(s) - 1) |-> IF j < i THEN s[j] ELSE s[j + 1]]

\* ------------------------------------------------------------------ state

VARIABLES
    services,       \* the merged catalog every request snapshots (config file order)
    lastStartedAt,  \* the lastStartedAt field of each service in the config file
    now,            \* the clock new Date() reads
    registry,       \* the port registry file
    regWrites,      \* how many times the registry file was written
    taken,          \* the ports on which the availability probe fails
    session,        \* whether the tmux session "devservers" exists
    windows,        \* for each name, the panes of the windows that carry it
    envLeft,        \* how many more changes the outside world makes to tmux
    slots,          \* the requests the daemon accepts in this behaviour
    req,            \* each request: its position and its local variables
    call,           \* the direct call of one function: its inputs and result
    windows0,       \* the windows of the initial state
    compose,        \* the compose cache: the services composeProjects.getServices() gives
    runtimeDetectedPorts,   \* the runtime map of detected ports
    runtimeLastStartedAt,   \* the runtime map of last starts
    states,         \* ComposeProjectRegistry.states: the state of each tracked project
    composeFiles    \* for each project root, what its compose file holds and its mtime

vars == <<services, lastStartedAt, now, registry, regWrites, taken, session,
          windows, envLeft, slots, req, call, windows0,
          compose, runtimeDetectedPorts, runtimeLastStartedAt, states, composeFiles>>

Requests == 1..MaxRequests

NoCall == [op |-> "none"]

\* A request body: whether devServerServiceSchema parses it, and the
\* service it then is.
NoBody ==
    [parsed |-> FALSE,
     data |-> [name |-> "", dependsOn |-> <<>>, port |-> 0 - 1, portMode |-> "undefined"]]

IdleRequest ==
    [kind |-> "none", name |-> "", source |-> "config",
     body |-> NoBody, config |-> <<>>, nextConfig |-> <<>>,
     pc |-> "idle", order |-> <<>>, idx |-> 0,
     read |-> {}, dead |-> FALSE, idle |-> FALSE,
     resolvedPort |-> Undefined, ports |-> EmptyPorts, servicePorts |-> EmptyPorts,
     stamp |-> 0, cfg |-> EmptyPorts, status |-> 0, calls |-> <<>>]

\* The locals of the per-service path, dropped when the path ends.
clearLocals(q) ==
    [q EXCEPT !.config = <<>>, !.nextConfig = <<>>,
              !.read = {}, !.dead = FALSE, !.idle = FALSE, !.resolvedPort = Undefined,
              !.ports = EmptyPorts, !.servicePorts = EmptyPorts, !.stamp = 0,
              !.cfg = EmptyPorts]

logCall(q, op, svc) == [q EXCEPT !.calls = Append(@, [op |-> op, svc |-> svc])]

\* The service the request is working on: the target at idx of its order,
\* and for a restart, after its order, the service itself.
current(q) == IF q.idx <= Len(q.order) THEN q.order[q.idx] ELSE q.name

\* The restart handler's last step: restartServiceWindow(service).
restartsSelf(q) == q.kind = "restart" /\ q.idx = Len(q.order) + 1

\* reply.code(status).send(...) or the handler's return { ok: true }.
respond(q, status) == [clearLocals(q) EXCEPT !.pc = "done", !.status = status]

\* resolveStartSettings, entered by startServiceWindow and by
\* restartServiceWindow: where its first await is.
enterService(q) ==
    LET svc == findService(services, current(q))
        mode == resolvePortMode(svc)
    IN  [logCall(q, "startService", svc.name) EXCEPT
            !.pc = IF mode = "registry" THEN "regRead"
                   ELSE IF mode = "detect" THEN "baseList"
                   ELSE "ports",
            !.resolvedPort = IF mode = "registry" THEN Undefined ELSE svc.port]

\* The handler's loop moves to its next target, or the handler returns.
advance(q) ==
    LET n == [clearLocals(q) EXCEPT !.idx = q.idx + 1] IN
    IF n.idx <= Len(n.order)
    THEN IF n.kind = "stop" THEN [logCall(n, "stopWindow", current(n)) EXCEPT !.pc = "stopList"]
         ELSE enterService(n)
    ELSE IF restartsSelf(n) THEN enterService(n)
    ELSE respond(n, 200)

\* A handler that notes the exception and goes on with its next target.
carryOn(q) == advance(logCall(q, "throw", current(q)))

\* An exception that leaves the per-service path: the start and restart
\* handlers catch it and answer 500; the stop handler does not catch it and
\* the server's error handler answers 500.
throw(q) == respond(logCall(q, "throw", current(q)), 500)

\* startServiceWindow / restartServiceWindow returned.
serviceDone(q) == advance(logCall(q, "startServiceDone", current(q)))

\* stopWindow returned: to the stop handler's loop, or to restartWindow,
\* which goes on to startWindow.
stopDone(q) ==
    LET d == logCall(q, "stopWindowDone", current(q)) IN
    IF q.kind = "stop" THEN advance(d)
    ELSE [logCall(d, "startWindow", current(q)) EXCEPT !.pc = "hasSession"]

\* A start that stamps the service whatever startWindow returned.
stampAlways(q, started) ==
    [logCall(q, IF started THEN "startWindowTrue" ELSE "startWindowFalse", current(q))
        EXCEPT !.pc = "lastRead", !.stamp = now]

\* startWindow returned `started`.
startDone(q, started) ==
    LET d == logCall(q, IF started THEN "startWindowTrue" ELSE "startWindowFalse", current(q))
    IN  IF started THEN [d EXCEPT !.pc = "lastRead", !.stamp = now]
        ELSE serviceDone(d)

\* ---------------------------------------------------------------- requests

setReq(r, q) == req' = [req EXCEPT ![r] = q]

windowExists(name) == session /\ windows[name] # <<>>

\* The handler of POST /services/:name/start, /stop and /restart up to its
\* first supervisor or registry call: the catalog snapshot, the 404 and 400
\* answers, the dependency graph and the order of the targets.
Receive(r, kind, name) ==
    /\ r \in slots
    /\ req[r].pc = "idle"
    /\ LET q == [IdleRequest EXCEPT !.kind = kind, !.name = name] IN
       IF buildCatalogFromConfig(services, compose).threw THEN setReq(r, respond(q, 400))
       ELSE IF ~hasService(services, name) THEN setReq(r, respond(q, 404))
       ELSE IF createDependencyGraph(services) # "none" THEN setReq(r, respond(q, 400))
       ELSE LET targets ==
                    IF kind = "start"
                    THEN topoSort(services, collectDependencies(services, name))
                    ELSE IF kind = "stop"
                    THEN Reverse(topoSort(services, collectDependents(services, name)))
                    ELSE topoSort(services, strictDependencies(services, name))
            IN  setReq(r, advance([q EXCEPT !.order = targets]))
    /\ UNCHANGED <<services, lastStartedAt, now, registry, regWrites, taken, session,
                   windows, envLeft, slots, call, windows0,
                   compose, states, composeFiles, runtimeDetectedPorts, runtimeLastStartedAt>>

\* ensureRegistryPort, its readPortRegistry: the file is read.
RegRead(r) ==
    /\ req[r].pc = "regRead"
    /\ LET q == req[r]
           existing == portOf(registry.ports, current(q))
       IN  IF registry.state = "invalid" THEN setReq(r, throw(q))
           ELSE IF registry.state = "missing" THEN setReq(r, [q EXCEPT !.pc = "regCreate"])
           ELSE IF existing # Undefined
           THEN setReq(r, [q EXCEPT !.pc = "ports", !.resolvedPort = existing])
           ELSE setReq(r, [q EXCEPT !.pc = "regWrite", !.ports = registry.ports])
    /\ UNCHANGED <<services, lastStartedAt, now, registry, regWrites, taken, session,
                   windows, envLeft, slots, call, windows0,
                   compose, states, composeFiles, runtimeDetectedPorts, runtimeLastStartedAt>>

\* readPortRegistry found no file: writeEmptyRegistry, and the ports are {}.
RegCreate(r) ==
    /\ req[r].pc = "regCreate"
    /\ registry' = PortsFile(EmptyPorts)
    /\ regWrites' = regWrites + 1
    /\ setReq(r, [req[r] EXCEPT !.pc = "regWrite", !.ports = EmptyPorts])
    /\ UNCHANGED <<services, lastStartedAt, now, taken, session, windows, envLeft,
                   slots, call, windows0,
                   compose, states, composeFiles, runtimeDetectedPorts, runtimeLastStartedAt>>

\* ensureRegistryPort for a name without entry: the scan for a port, then
\* writePortRegistry of the ports read before plus the new entry.
RegWrite(r) ==
    /\ req[r].pc = "regWrite"
    /\ LET q == req[r]
           svc == findService(services, current(q))
           assigned == assignPort(q.ports, svc.port, Undefined,
                                  collectReservedPorts(services, svc.name), taken)
       IN  IF assigned = Undefined
           THEN /\ setReq(r, throw(q))
                /\ UNCHANGED <<registry, regWrites>>
           ELSE /\ registry' = PortsFile(withPort(q.ports, svc.name, assigned))
                /\ regWrites' = regWrites + 1
                /\ setReq(r, [q EXCEPT !.pc = "ports", !.resolvedPort = assigned,
                                       !.ports = EmptyPorts])
    /\ UNCHANGED <<services, lastStartedAt, now, taken, session, windows, envLeft,
                   slots, call, windows0,
                   compose, states, composeFiles, runtimeDetectedPorts, runtimeLastStartedAt>>

\* resolveStartSettings in detect mode: capturePane's windowExists.
BaseList(r) ==
    /\ req[r].pc = "baseList"
    /\ setReq(r, [req[r] EXCEPT
                    !.pc = IF windowExists(current(req[r])) THEN "baseCapture" ELSE "ports"])
    /\ UNCHANGED <<services, lastStartedAt, now, registry, regWrites, taken, session,
                   windows, envLeft, slots, call, windows0,
                   compose, states, composeFiles, runtimeDetectedPorts, runtimeLastStartedAt>>

\* capturePane's capture-pane, which throws when the target is gone.
BaseCapture(r) ==
    /\ req[r].pc = "baseCapture"
    /\ \E o \in targetOutcomes(Len(windows[current(req[r])])) :
          setReq(r, IF o = 0 THEN throw(req[r]) ELSE [req[r] EXCEPT !.pc = "ports"])
    /\ UNCHANGED <<services, lastStartedAt, now, registry, regWrites, taken, session,
                   windows, envLeft, slots, call, windows0,
                   compose, states, composeFiles, runtimeDetectedPorts, runtimeLastStartedAt>>

\* resolveServicePorts (the registry is read, a failure gives {}), then the
\* call of startWindow, or of restartWindow, which begins with stopWindow.
ResolvePorts(r) ==
    /\ req[r].pc = "ports"
    /\ LET q == req[r]
           registryPorts == IF registry.state = "ok" THEN registry.ports ELSE EmptyPorts
           p == [q EXCEPT !.servicePorts =
                    resolveServicePorts(services, registryPorts, current(q), q.resolvedPort)]
       IN  setReq(r, IF restartsSelf(q)
                     THEN [logCall(p, "stopWindow", current(q)) EXCEPT !.pc = "stopList"]
                     ELSE [logCall(p, "startWindow", current(q)) EXCEPT !.pc = "hasSession"])
    /\ UNCHANGED <<services, lastStartedAt, now, registry, regWrites, taken, session,
                   windows, envLeft, slots, call, windows0,
                   compose, states, composeFiles, runtimeDetectedPorts, runtimeLastStartedAt>>

\* ensureSession: has-session.
HasSession(r) ==
    /\ req[r].pc = "hasSession"
    /\ setReq(r, [req[r] EXCEPT !.pc = IF session THEN "listWindows" ELSE "newSession"])
    /\ UNCHANGED <<services, lastStartedAt, now, registry, regWrites, taken, session,
                   windows, envLeft, slots, call, windows0,
                   compose, states, composeFiles, runtimeDetectedPorts, runtimeLastStartedAt>>

\* ensureSession: new-session, which fails when the session exists by now.
NewSession(r) ==
    /\ req[r].pc = "newSession"
    /\ IF session
       THEN setReq(r, throw(req[r])) /\ UNCHANGED session
       ELSE setReq(r, [req[r] EXCEPT !.pc = "listWindows"]) /\ session' = TRUE
    /\ UNCHANGED <<services, lastStartedAt, now, registry, regWrites, taken,
                   windows, envLeft, slots, call, windows0,
                   compose, states, composeFiles, runtimeDetectedPorts, runtimeLastStartedAt>>

\* startWindow: windowExists(service.name).
ListWindows(r) ==
    /\ req[r].pc = "listWindows"
    /\ setReq(r, [req[r] EXCEPT
                    !.pc = IF windowExists(current(req[r])) THEN "paneCheck" ELSE "newWindow"])
    /\ UNCHANGED <<services, lastStartedAt, now, registry, regWrites, taken, session,
                   windows, envLeft, slots, call, windows0,
                   compose, states, composeFiles, runtimeDetectedPorts, runtimeLastStartedAt>>

\* After Promise.all([isPaneDead, isPaneIdle]): a live pane that runs a
\* command makes startWindow return false, anything else goes on to kill.
paneChecked(q) ==
    IF q.read # {"dead", "idle"} THEN q
    ELSE IF ~q.dead /\ ~q.idle THEN startDone(q, FALSE)
    ELSE [q EXCEPT !.pc = "kill"]

\* isPaneDead: list-panes prints pane_dead; a failure counts as not dead.
IsPaneDead(r) ==
    /\ req[r].pc = "paneCheck"
    /\ "dead" \notin req[r].read
    /\ LET q == req[r] IN
       \E o \in targetOutcomes(Len(windows[current(q)])) :
          setReq(r, paneChecked([q EXCEPT
                    !.read = @ \cup {"dead"},
                    !.dead = IF o = 0 THEN FALSE ELSE windows[current(q)][o].dead]))
    /\ UNCHANGED <<services, lastStartedAt, now, registry, regWrites, taken, session,
                   windows, envLeft, slots, call, windows0,
                   compose, states, composeFiles, runtimeDetectedPorts, runtimeLastStartedAt>>

\* isPaneIdle: display-message prints pane_current_command; a failure
\* gives "", which is no idle command.
IsPaneIdle(r) ==
    /\ req[r].pc = "paneCheck"
    /\ "idle" \notin req[r].read
    /\ LET q == req[r] IN
       \E o \in targetOutcomes(Len(windows[current(q)])) :
          setReq(r, paneChecked([q EXCEPT
                    !.read = @ \cup {"idle"},
                    !.idle = IF o = 0 THEN FALSE
                             ELSE windows[current(q)][o].cmd \in IDLE_COMMANDS]))
    /\ UNCHANGED <<services, lastStartedAt, now, registry, regWrites, taken, session,
                   windows, envLeft, slots, call, windows0,
                   compose, states, composeFiles, runtimeDetectedPorts, runtimeLastStartedAt>>

\* A kill-window that leaves every window.
keepWindows(name, o) == windows' = windows

\* kill-window on the target; its failure is swallowed.
killTarget(name, o) ==
    windows' = IF o = 0 THEN windows ELSE [windows EXCEPT ![name] = removeAt(@, o)]

\* startWindow: kill-window of the dead or idle window.
KillWindow(r) ==
    /\ req[r].pc = "kill"
    /\ \E o \in targetOutcomes(Len(windows[current(req[r])])) : killTarget(current(req[r]), o)
    /\ setReq(r, [req[r] EXCEPT !.pc = "newWindow"])
    /\ UNCHANGED <<services, lastStartedAt, now, registry, regWrites, taken, session,
                   envLeft, slots, call, windows0,
                   compose, states, composeFiles, runtimeDetectedPorts, runtimeLastStartedAt>>

\* startWindow: new-window -d -n <name>; tmux does not keep names unique.
NewWindow(r) ==
    /\ req[r].pc = "newWindow"
    /\ IF ~session
       THEN setReq(r, throw(req[r])) /\ UNCHANGED windows
       ELSE /\ windows' = [windows EXCEPT ![current(req[r])] = Append(@, ShellPane)]
            /\ setReq(r, [req[r] EXCEPT !.pc = "sendKeys"])
    /\ UNCHANGED <<services, lastStartedAt, now, registry, regWrites, taken, session,
                   envLeft, slots, call, windows0,
                   compose, states, composeFiles, runtimeDetectedPorts, runtimeLastStartedAt>>

\* What typing the command and Enter does to a pane: an idle shell runs it.
typeCommand(pane) ==
    IF ~pane.dead /\ pane.cmd \in IDLE_COMMANDS THEN [pane EXCEPT !.cmd = ServiceCommand]
    ELSE pane

\* startWindow: send-keys <command> C-m, then return true; the caller reads
\* the clock for updateLastStartedAt, which first sets the runtime map.
SendKeys(r) ==
    /\ req[r].pc = "sendKeys"
    /\ LET name == current(req[r]) IN
       \E o \in targetOutcomes(Len(windows[name])) :
          IF o = 0
          THEN setReq(r, throw(req[r])) /\ UNCHANGED <<windows, now, runtimeLastStartedAt>>
          ELSE /\ windows' = [windows EXCEPT ![name][o] = typeCommand(@)]
               /\ setReq(r, startDone(req[r], TRUE))
               /\ runtimeLastStartedAt' = withPort(runtimeLastStartedAt, name, now)
               /\ now' = now + 1
    /\ UNCHANGED <<services, lastStartedAt, registry, regWrites, taken, session,
                   envLeft, slots, call, windows0, compose, states, composeFiles, runtimeDetectedPorts>>

\* After updateLastStartedAt: schedulePortDetection for a detect service.
scheduled(q) ==
    IF resolvePortMode(findService(services, current(q))) = "detect"
    THEN logCall(q, "schedulePortDetection", current(q))
    ELSE q

\* updateLastStartedAt: readConfig.
LastRead(r) ==
    /\ req[r].pc = "lastRead"
    /\ setReq(r, [req[r] EXCEPT !.pc = "lastWrite", !.cfg = lastStartedAt])
    /\ UNCHANGED <<services, lastStartedAt, now, registry, regWrites, taken, session,
                   windows, envLeft, slots, call, windows0,
                   compose, states, composeFiles, runtimeDetectedPorts, runtimeLastStartedAt>>

\* updateLastStartedAt: writeConfig of the config read, with the new stamp.
LastWrite(r) ==
    /\ req[r].pc = "lastWrite"
    /\ lastStartedAt' = [req[r].cfg EXCEPT ![current(req[r])] = req[r].stamp]
    /\ setReq(r, serviceDone(scheduled(req[r])))
    /\ UNCHANGED <<services, now, registry, regWrites, taken, session,
                   windows, envLeft, slots, call, windows0,
                   compose, states, composeFiles, runtimeDetectedPorts, runtimeLastStartedAt>>

\* stopWindow: windowExists(windowName); no window, nothing to do.
StopList(r) ==
    /\ req[r].pc = "stopList"
    /\ setReq(r, IF windowExists(current(req[r])) THEN [req[r] EXCEPT !.pc = "sendCc"]
                 ELSE stopDone(req[r]))
    /\ UNCHANGED <<services, lastStartedAt, now, registry, regWrites, taken, session,
                   windows, envLeft, slots, call, windows0,
                   compose, states, composeFiles, runtimeDetectedPorts, runtimeLastStartedAt>>

\* stopWindow: send-keys C-c, outside any try: a missing target throws.
SendInterrupt(r) ==
    /\ req[r].pc = "sendCc"
    /\ \E o \in targetOutcomes(Len(windows[current(req[r])])) :
          setReq(r, IF o = 0 THEN throw(req[r]) ELSE [req[r] EXCEPT !.pc = "stopKill"])
    /\ UNCHANGED <<services, lastStartedAt, now, registry, regWrites, taken, session,
                   windows, envLeft, slots, call, windows0,
                   compose, states, composeFiles, runtimeDetectedPorts, runtimeLastStartedAt>>

\* stopWindow: after the delay, kill-window; its failure is swallowed.
StopKill(r) ==
    /\ req[r].pc = "stopKill"
    /\ \E o \in targetOutcomes(Len(windows[current(req[r])])) : killTarget(current(req[r]), o)
    /\ setReq(r, stopDone(req[r]))
    /\ UNCHANGED <<services, lastStartedAt, now, registry, regWrites, taken, session,
                   envLeft, slots, call, windows0,
                   compose, states, composeFiles, runtimeDetectedPorts, runtimeLastStartedAt>>

\* ------------------------------------------------------- the outside world

\* The command of a pane ends (by itself or on the interrupt): the shell
\* is the pane's current command again.
CommandExits(name, i) ==
    /\ envLeft > 0
    /\ i \in 1..Len(windows[name])
    /\ ~windows[name][i].dead
    /\ windows[name][i].cmd \notin IDLE_COMMANDS
    /\ windows' = [windows EXCEPT ![name][i].cmd = "zsh"]
    /\ envLeft' = envLeft - 1
    /\ UNCHANGED <<services, lastStartedAt, now, registry, regWrites, taken, session,
                   slots, req, call, windows0,
                   compose, states, composeFiles, runtimeDetectedPorts, runtimeLastStartedAt>>

\* A window is closed from outside the daemon (its shell exits, the user
\* closes it).
WindowCloses(name, i) ==
    /\ envLeft > 0
    /\ i \in 1..Len(windows[name])
    /\ windows' = [windows EXCEPT ![name] = removeAt(@, i)]
    /\ envLeft' = envLeft - 1
    /\ UNCHANGED <<services, lastStartedAt, now, registry, regWrites, taken, session,
                   slots, req, call, windows0,
                   compose, states, composeFiles, runtimeDetectedPorts, runtimeLastStartedAt>>

\* ---------------------------------------------------------- specifications

Kinds == {"start", "stop", "restart"}

\* A name no catalog holds, for the 404 answer.
RouteNames == Names \cup {"ghost"}

\* The port mode and the declared port the catalogs of the model give the
\* i-th name: registry without port, detect with 3100, static with 3000.
modeOf(i) ==
    IF i % 3 = 1 THEN "registry" ELSE IF i % 3 = 2 THEN "detect" ELSE "undefined"

declaredPortOf(i) ==
    IF i % 3 = 1 THEN Undefined ELSE IF i % 3 = 2 THEN 3100 ELSE 3000

\* The catalog of the concurrent specification: api depends on db.
ChainCatalog ==
    [i \in 1..2 |->
        [name |-> CatalogOrder[i],
         dependsOn |-> IF i = 1 THEN <<>> ELSE <<CatalogOrder[1]>>,
         port |-> declaredPortOf(i), portMode |-> modeOf(i)]]

\* The catalog with the dependency edges E (<<a, b>>: a depends on b), each
\* dependsOn list in catalog order or in the reverse of it.
catalogOf(E, listOrder) ==
    [i \in 1..MaxServices |->
        [name |-> CatalogOrder[i],
         dependsOn |-> FilterSeq(listOrder, {m \in Names : <<CatalogOrder[i], m>> \in E}),
         port |-> declaredPortOf(i), portMode |-> modeOf(i)]]

\* Every valid catalog over Names in the order CatalogOrder (a catalog in
\* another order is one of these with the names exchanged).  With three
\* names these are all the dependsOn lists without cycle: at most one
\* service has two dependencies, in one order or the other.
ValidCatalogs ==
    {c \in {catalogOf(E, l) : E \in SUBSET {e \in Names \X Names : e[1] # e[2]},
                              l \in {CatalogOrder, Reverse(CatalogOrder)}} :
        createDependencyGraph(c) = "none"}

RunningPane == [dead |-> FALSE, cmd |-> ServiceCommand]

NoWindows == [n \in Names |-> <<>>]

\* Every service with one window whose pane is `pane`.
allWindows(pane) == [n \in Names |-> <<pane>>]

\* ------------------------------------------- the compose project registry

\* The roots of the registered projects of the model.
RootPaths == {"/a", "/b"}

\* A compose file: what reading it gives ("valid", "invalid" for YAML or
\* a service definition that does not parse, "unreadable" when readFile
\* fails, "missing") and the mtimeMs stat reports for it.
composeFile(content, mtimeMs) == [content |-> content, mtimeMs |-> mtimeMs]

NoStates == << >>

NoFiles == [path \in RootPaths |-> composeFile("missing", 1)]

\* buildState(project); id tells the state objects of one name apart.
buildState(project, id) ==
    [project |-> project, rootPath |-> project.path, services |-> <<>>,
     mtimeMs |-> Undefined, watcher |-> FALSE, id |-> id]

\* A failed load that leaves the services of the load before it.
keepLoaded(state, mtimeMs) == [state EXCEPT !.mtimeMs = mtimeMs]

\* reloadProject's catch: the services become [] and the error is logged.
failedLoad(state, mtimeMs) == [state EXCEPT !.mtimeMs = mtimeMs, !.services = <<>>]

\* reloadProject(state, logger, { force }) on what the file holds: the
\* services of a valid file are those of the project at that path.
reloadProject(state, file, force) ==
    LET mtimeMs == IF file.content = "missing" THEN Undefined ELSE file.mtimeMs IN
    IF ~force /\ mtimeMs = state.mtimeMs THEN state
    ELSE IF mtimeMs = Undefined THEN [state EXCEPT !.mtimeMs = mtimeMs, !.services = <<>>]
    ELSE IF file.content = "valid"
    THEN [state EXCEPT !.mtimeMs = mtimeMs,
                       !.services = <<[name |-> state.project.name,
                                       composePath |-> state.rootPath]>>]
    ELSE failedLoad(state, mtimeMs)

\* The loop of sync from project i on, up to its first await: a project
\* that is new or has another root gets a fresh state and the loop waits
\* for its reloadProject (idx = i); any other keeps its state, with
\* ensureWatcher.  idx past the list: sync returns.
RECURSIVE syncFrom(_, _, _, _)
syncFrom(st, projects, i, r) ==
    IF i > Len(projects) THEN [states |-> st, idx |-> i]
    ELSE LET project == projects[i]
             shouldReplace == IF project.name \notin DOMAIN st THEN TRUE
                              ELSE st[project.name].rootPath # project.path
         IN  IF shouldReplace
             THEN [states |-> withPort(st, project.name, buildState(project, <<r, i>>)),
                   idx |-> i]
             ELSE syncFrom([st EXCEPT ![project.name].project = project,
                                      ![project.name].watcher = TRUE],
                           projects, i + 1, r)

\* getServices(): the services of every state, one state after the other
\* (here p before q; the code goes by the order of insertion).
getServices(st) ==
    (IF "p" \in DOMAIN st THEN st["p"].services ELSE <<>>) \o
    (IF "q" \in DOMAIN st THEN st["q"].services ELSE <<>>)

InitCommon ==
    /\ lastStartedAt = [n \in Names |-> 0]
    /\ now = 1
    /\ regWrites = 0
    /\ taken = {}
    /\ req = [r \in Requests |-> IdleRequest]
    /\ call = NoCall
    /\ windows0 = windows
    /\ runtimeDetectedPorts = EmptyPorts
    /\ runtimeLastStartedAt = EmptyPorts
    /\ states = NoStates
    /\ composeFiles = NoFiles

\* The daemon serving MaxRequests concurrent requests on the chain catalog,
\* while the outside world changes the session MaxEnv times.
Init ==
    /\ services = ChainCatalog
    /\ registry \in {MissingFile, InvalidFile}
    /\ session \in BOOLEAN
    /\ windows \in IF session THEN {NoWindows, allWindows(RunningPane)} ELSE {NoWindows}
    /\ envLeft = MaxEnv
    /\ slots = Requests
    /\ compose = <<>>
    /\ InitCommon

RequestStep(r) ==
    \/ \E kind \in Kinds, name \in RouteNames : Receive(r, kind, name)
    \/ RegRead(r)
    \/ RegCreate(r)
    \/ RegWrite(r)
    \/ BaseList(r)
    \/ BaseCapture(r)
    \/ ResolvePorts(r)
    \/ HasSession(r)
    \/ NewSession(r)
    \/ ListWindows(r)
    \/ IsPaneDead(r)
    \/ IsPaneIdle(r)
    \/ KillWindow(r)
    \/ NewWindow(r)
    \/ SendKeys(r)
    \/ LastRead(r)
    \/ LastWrite(r)
    \/ StopList(r)
    \/ SendInterrupt(r)
    \/ StopKill(r)

EnvStep ==
    \E name \in Names, i \in 1..(MaxRequests + 1) :
        \/ CommandExits(name, i)
        \/ WindowCloses(name, i)

Next ==
    \/ \E r \in Requests : RequestStep(r)
    \/ EnvStep

Spec == Init /\ [][Next]_vars

\* One request on any valid catalog, nothing else touching the session:
\* no session yet, or a session where every service has no window, an idle
\* window or a running one.
InitTraversal ==
    /\ services \in ValidCatalogs
    /\ registry = MissingFile
    /\ session \in BOOLEAN
    /\ windows \in IF session
                   THEN {NoWindows, allWindows(ShellPane), allWindows(RunningPane)}
                   ELSE {NoWindows}
    /\ envLeft = 0
    /\ slots = {1}
    /\ compose = <<>>
    /\ InitCommon

NextTraversal == \E r \in Requests : RequestStep(r)

SpecTraversal == InitTraversal /\ [][NextTraversal]_vars

\* ------------------------------------------------------- getServiceStatus

\* What pane_current_command shows in the model: the four shells the code
\* names, and two programs.
Commands == {"zsh", "bash", "sh", "fish", "node", "vim"}

Panes == [dead : BOOLEAN, cmd : Commands]

callIdle == IF call.op = "none" THEN TRUE ELSE call.pc = "done"

\* getServiceStatus: windowExists; no window is "stopped".
StatusWindowExists(name) ==
    /\ callIdle
    /\ \A q \in Requests : req[q].pc = "idle"
    /\ call' = IF windowExists(name)
               THEN [op |-> "getServiceStatus", name |-> name, pc |-> "isPaneDead",
                     result |-> ""]
               ELSE [op |-> "getServiceStatus", name |-> name, pc |-> "done",
                     result |-> "stopped"]
    /\ UNCHANGED <<services, lastStartedAt, now, registry, regWrites, taken, session,
                   windows, envLeft, slots, req, windows0,
                   compose, states, composeFiles, runtimeDetectedPorts, runtimeLastStartedAt>>

\* getServiceStatus: isPaneDead; a dead pane is "error".
StatusIsPaneDead ==
    /\ call.op = "getServiceStatus"
    /\ call.pc = "isPaneDead"
    /\ \E o \in targetOutcomes(Len(windows[call.name])) :
          call' = IF o # 0 /\ windows[call.name][o].dead
                  THEN [call EXCEPT !.pc = "done", !.result = "error"]
                  ELSE [call EXCEPT !.pc = "isPaneIdle"]
    /\ UNCHANGED <<services, lastStartedAt, now, registry, regWrites, taken, session,
                   windows, envLeft, slots, req, windows0,
                   compose, states, composeFiles, runtimeDetectedPorts, runtimeLastStartedAt>>

\* getServiceStatus: isPaneIdle; an idle shell is "stopped", else "running".
StatusIsPaneIdle ==
    /\ call.op = "getServiceStatus"
    /\ call.pc = "isPaneIdle"
    /\ \E o \in targetOutcomes(Len(windows[call.name])) :
          call' = IF o # 0 /\ windows[call.name][o].cmd \in IDLE_COMMANDS
                  THEN [call EXCEPT !.pc = "done", !.result = "stopped"]
                  ELSE [call EXCEPT !.pc = "done", !.result = "running"]
    /\ UNCHANGED <<services, lastStartedAt, now, registry, regWrites, taken, session,
                   windows, envLeft, slots, req, windows0,
                   compose, states, composeFiles, runtimeDetectedPorts, runtimeLastStartedAt>>

\* GET /services/:name/logs: the socket is open, the interval is set and
\* the first sendLogs has started its capture.  In the request, idx counts
\* the captures in flight, stamp the captures started and status the
\* frames sent; pc is "closed" once the close handler has run.
LogsConnect(r, name) ==
    /\ call = NoCall
    /\ \A q \in Requests : req[q].pc = "idle"
    /\ setReq(r, [IdleRequest EXCEPT !.kind = "logs", !.name = name, !.pc = "open",
                                     !.idx = 1, !.stamp = 1])
    /\ UNCHANGED <<services, lastStartedAt, now, registry, regWrites, taken, session,
                   windows, envLeft, slots, call, windows0,
                   compose, states, composeFiles, runtimeDetectedPorts, runtimeLastStartedAt>>

\* The interval, which fires until the close handler clears it: sendLogs
\* finds closed unset and starts capturePane.
LogsInterval(r) ==
    /\ req[r].kind = "logs"
    /\ req[r].pc = "open"
    /\ req[r].stamp <= MaxCalls
    /\ setReq(r, [req[r] EXCEPT !.idx = @ + 1, !.stamp = @ + 1])
    /\ UNCHANGED <<services, lastStartedAt, now, registry, regWrites, taken, session,
                   windows, envLeft, slots, call, windows0,
                   compose, states, composeFiles, runtimeDetectedPorts, runtimeLastStartedAt>>

\* A capturePane of sendLogs ends: with a payload, and socket.send is
\* called, or with an error, which is logged.
LogsCaptured(r, sends) ==
    /\ req[r].kind = "logs"
    /\ req[r].idx > 0
    /\ setReq(r, IF sends THEN [req[r] EXCEPT !.idx = @ - 1, !.status = @ + 1]
                 ELSE [req[r] EXCEPT !.idx = @ - 1])
    /\ UNCHANGED <<services, lastStartedAt, now, registry, regWrites, taken, session,
                   windows, envLeft, slots, call, windows0,
                   compose, states, composeFiles, runtimeDetectedPorts, runtimeLastStartedAt>>

\* The socket's close event: closed = true, clearInterval(interval).
LogsClose(r) ==
    /\ req[r].kind = "logs"
    /\ req[r].pc = "open"
    /\ setReq(r, [req[r] EXCEPT !.pc = "closed"])
    /\ UNCHANGED <<services, lastStartedAt, now, registry, regWrites, taken, session,
                   windows, envLeft, slots, call, windows0,
                   compose, states, composeFiles, runtimeDetectedPorts, runtimeLastStartedAt>>

\* getServiceStatus on a session nothing else changes: any session where
\* each service has no window or one window with any pane.
InitStatus ==
    /\ services = ChainCatalog
    /\ registry = MissingFile
    /\ session \in BOOLEAN
    /\ windows \in IF session THEN [Names -> {<<>>} \cup {<<p>> : p \in Panes}]
                   ELSE {NoWindows}
    /\ envLeft = 0
    /\ slots = {}
    /\ compose = <<>>
    /\ InitCommon

NextStatus ==
    \/ \E name \in Names : StatusWindowExists(name)
    \/ StatusIsPaneDead
    \/ StatusIsPaneIdle
    \/ \E r \in Requests :
          \/ \E name \in Names : LogsConnect(r, name)
          \/ LogsInterval(r)
          \/ \E sends \in BOOLEAN : LogsCaptured(r, sends)
          \/ LogsClose(r)

SpecStatus == InitStatus /\ [][NextStatus]_vars

\* ----------------------------------------------------- ensureRegistryPort

PreferredInputs == {Undefined, 0, 3000, 65535, 70000}

BaseInputs == {Undefined, 4000, 70000}

ReservedInputs == {{}, {3000, 3001}, {0, 4000, 70000}, {65535}}

TakenInputs == {{}, {3002}, {3100, 4000, 65535}}

RegistryInputs ==
    {MissingFile, InvalidFile, PortsFile(EmptyPorts)}
    \cup {PortsFile(withPort(EmptyPorts, n, p)) : n \in Names, p \in {3100, 4555}}

\* One call of ensureRegistryPort(configPath, name, options), alone on the
\* registry file; the call keeps the file it found and what it returned.
EnsureRegistryPort(name, preferredPort, basePort, reservedPorts) ==
    /\ IF call.op = "none" THEN TRUE ELSE call.seq < MaxCalls
    /\ LET res == ensureRegistryPort(registry, name, preferredPort, basePort,
                                     reservedPorts, taken)
       IN  /\ call' = [op |-> "ensureRegistryPort",
                       seq |-> IF call.op = "none" THEN 1 ELSE call.seq + 1,
                       name |-> name, preferredPort |-> preferredPort,
                       basePort |-> basePort, reservedPorts |-> reservedPorts,
                       before |-> registry, threw |-> res.threw, port |-> res.port,
                       created |-> res.created, writes |-> res.writes]
           /\ registry' = res.file
           /\ regWrites' = regWrites + res.writes
    /\ UNCHANGED <<services, lastStartedAt, now, taken, session, windows, envLeft,
                   slots, req, windows0,
                   compose, states, composeFiles, runtimeDetectedPorts, runtimeLastStartedAt>>

InitRegistry ==
    /\ services = ChainCatalog
    /\ registry \in RegistryInputs
    /\ session = FALSE
    /\ windows = NoWindows
    /\ envLeft = 0
    /\ slots = {}
    /\ lastStartedAt = [n \in Names |-> 0]
    /\ now = 1
    /\ regWrites = 0
    /\ taken \in TakenInputs
    /\ req = [r \in Requests |-> IdleRequest]
    /\ call = NoCall
    /\ windows0 = windows
    /\ compose = <<>>
    /\ runtimeDetectedPorts = EmptyPorts
    /\ runtimeLastStartedAt = EmptyPorts
    /\ states = NoStates
    /\ composeFiles = NoFiles

NextRegistry ==
    \E name \in Names, preferredPort \in PreferredInputs, basePort \in BaseInputs,
       reservedPorts \in ReservedInputs :
        EnsureRegistryPort(name, preferredPort, basePort, reservedPorts)

SpecRegistry == InitRegistry /\ [][NextRegistry]_vars

\* ------------------------------------------------------------ properties

\* The least set that holds `set` and, with each member, what edges gives it.
RECURSIVE closure(_, _)
closure(edges, set) ==
    LET next == set \cup UNION {edges[m] : m \in set} IN
    IF next = set THEN set ELSE closure(edges, next)

dependsOnOf(n) == UNION {Range(services[i].dependsOn) : i \in {j \in 1..Len(services) : services[j].name = n}}

dependOn(n) == {services[i].name : i \in {j \in 1..Len(services) : n \in Range(services[j].dependsOn)}}

catalogNames == {services[i].name : i \in 1..Len(services)}

\* N and everything N depends on, directly or not.
dependencyClosure(n) == closure([m \in catalogNames |-> dependsOnOf(m)], {n})

\* N and everything that depends on N, directly or not.
dependentClosure(n) == closure([m \in catalogNames |-> dependOn(m)], {n})

\* Where the request q has the event op on the service svc.
positions(q, op, svc) ==
    {i \in 1..Len(q.calls) : q.calls[i] = [op |-> op, svc |-> svc]}

\* q has op on svc somewhere between the events i and k.
between(q, op, svc, i, k) == \E j \in positions(q, op, svc) : i < j /\ j < k

\* A request that went past the 404 and 400 answers.
traverses(q, kind) == q.kind = kind /\ q.pc # "idle" /\ q.status \notin {400, 404}

\* The per-service starts of q are for services N needs, none twice, one
\* at a time, each after the starts of its dependencies have completed.
startsInOrder(q) ==
    \A i \in 1..Len(q.calls) :
        q.calls[i].op = "startService" =>
            /\ q.calls[i].svc \in dependencyClosure(q.name)
            /\ \A j \in 1..(i - 1) :
                  q.calls[j].op = "startService" =>
                      /\ q.calls[j].svc # q.calls[i].svc
                      /\ between(q, "startServiceDone", q.calls[j].svc, j, i)
            /\ \A d \in dependsOnOf(q.calls[i].svc) :
                  between(q, "startServiceDone", d, 0, i)

\* C1: a Start(N) request issues per-service starts exactly for the
\* services of the transitive dependency closure of N (N included), one at a
\* time, and the start of a service only after the starts of all the
\* services it depends on have completed.
C1_StartTraversal ==
    \A r \in Requests :
        traverses(req[r], "start") =>
            /\ startsInOrder(req[r])
            /\ req[r].status = 200 =>
                  \A n \in dependencyClosure(req[r].name) :
                      positions(req[r], "startServiceDone", n) # {}

\* A Start(N) answered 200 where N needs every service of the catalog.
C1_Witness ==
    \E r \in Requests :
        /\ traverses(req[r], "start")
        /\ req[r].status = 200
        /\ dependencyClosure(req[r].name) = Names
        /\ Len(req[r].order) = MaxServices

\* C2: when the per-service start path fails for a target of the Start(N)
\* order, no supervisor start is issued for any later target and the
\* request answers 500.
C2_StartAborts ==
    \A r \in Requests :
        traverses(req[r], "start") =>
            \A i \in 1..Len(req[r].calls) :
                req[r].calls[i].op = "throw" =>
                    /\ req[r].pc = "done"
                    /\ req[r].status = 500
                    /\ \A k \in 1..Len(req[r].order) :
                          k > IndexOf(req[r].order, req[r].calls[i].svc) =>
                              /\ positions(req[r], "startWindow", req[r].order[k]) = {}
                              /\ positions(req[r], "startService", req[r].order[k]) = {}

\* A Start(N) whose first target failed while a later target was left.
C2_Witness ==
    \E r \in Requests :
        /\ traverses(req[r], "start")
        /\ req[r].pc = "done"
        /\ Len(req[r].order) > 1
        /\ positions(req[r], "throw", req[r].order[1]) # {}

\* The supervisor stops of q follow the dependents: each service after
\* every service that depends on it.
stopsInOrder(q) ==
    \A i \in 1..Len(q.calls) :
        q.calls[i].op = "stopWindow" =>
            /\ q.calls[i].svc \in dependentClosure(q.name)
            /\ \A d \in dependOn(q.calls[i].svc) :
                  between(q, "stopWindow", d, 0, i)

\* C3: a Stop(N) request calls supervisor stop exactly on N and on its
\* transitive dependents, each service only after every service that
\* depends on it has been stopped, and N last.
C3_StopTraversal ==
    \A r \in Requests :
        traverses(req[r], "stop") =>
            /\ stopsInOrder(req[r])
            /\ req[r].pc = "done" =>
                  /\ \A n \in dependentClosure(req[r].name) :
                        positions(req[r], "stopWindow", n) # {}
                  /\ \A i \in 1..Len(req[r].calls) :
                        req[r].calls[i].op = "stopWindow" =>
                            (req[r].calls[i].svc = req[r].name <=>
                                \A j \in (i + 1)..Len(req[r].calls) :
                                    req[r].calls[j].op # "stopWindow")

\* C4: in a Stop(N) request a failure of supervisor stop on one service of
\* the stop order does not abort the request: supervisor stop is still
\* called on every remaining service of the order.
C4_StopGoesOn ==
    \A r \in Requests :
        traverses(req[r], "stop") /\ req[r].pc = "done" =>
            \A k \in 1..Len(req[r].order) :
                positions(req[r], "stopWindow", req[r].order[k]) # {}

\* C5: a Restart(N) request issues starts for the strict transitive
\* dependencies of N in deps-first order, then stops and starts N itself,
\* and issues no supervisor stop or start for a service outside the
\* dependency closure of N; the windows of the dependents of N (of every
\* service outside the closure) are left unchanged.
C5_RestartScope ==
    \A r \in Requests :
        traverses(req[r], "restart") =>
            /\ startsInOrder(req[r])
            /\ \A i \in 1..Len(req[r].calls) :
                  /\ req[r].calls[i].svc \in dependencyClosure(req[r].name)
                  /\ req[r].calls[i].op = "stopWindow" =>
                        /\ req[r].calls[i].svc = req[r].name
                        /\ \A d \in dependencyClosure(req[r].name) \ {req[r].name} :
                              between(req[r], "startServiceDone", d, 0, i)
                  /\ req[r].calls[i] = [op |-> "startWindow", svc |-> req[r].name] =>
                        between(req[r], "stopWindowDone", req[r].name, 0, i)
            /\ \A n \in Names \ dependencyClosure(req[r].name) : windows[n] = windows0[n]
            /\ req[r].status = 200 =>
                  /\ \A n \in dependencyClosure(req[r].name) :
                        positions(req[r], "startServiceDone", n) # {}
                  /\ positions(req[r], "stopWindowDone", req[r].name) # {}

\* A Restart(N) answered 200 where N has a dependency and a dependent
\* whose window exists.
C5_Witness ==
    \E r \in Requests :
        /\ traverses(req[r], "restart")
        /\ req[r].status = 200
        /\ Len(req[r].order) >= 1
        /\ \E n \in dependentClosure(req[r].name) \ {req[r].name} : windows0[n] # <<>>

\* The requests r1 and r2 are both Start requests that have come to the
\* result of supervisor start for the service n.
bothStarted(r1, r2, n) ==
    /\ r1 # r2
    /\ req[r1].kind = "start"
    /\ req[r2].kind = "start"
    /\ \A r \in {r1, r2} :
          positions(req[r], "startWindowTrue", n) \cup
          positions(req[r], "startWindowFalse", n) # {}

\* C6: two start requests for the same stopped service that run
\* concurrently: under every interleaving exactly one of them issues the
\* service's command (supervisor start returns true) and the other one
\* returns false.
C6_FirstWriterWins ==
    \A r1, r2 \in Requests : \A n \in Names :
        (/\ bothStarted(r1, r2, n)
         /\ windows0[n] = <<>>
         /\ envLeft = MaxEnv) =>
            \/ /\ positions(req[r1], "startWindowTrue", n) # {}
               /\ positions(req[r2], "startWindowFalse", n) # {}
            \/ /\ positions(req[r1], "startWindowFalse", n) # {}
               /\ positions(req[r2], "startWindowTrue", n) # {}

\* C7: in every reachable state of the session at most one window carries
\* the name of a given service.
C7_OneWindowPerService == \A n \in Names : Len(windows[n]) <= 1

\* The status the table gives the windows of the name n.
statusTable(n) ==
    IF ~session \/ Len(windows[n]) = 0 THEN "stopped"
    ELSE IF windows[n][1].dead THEN "error"
    ELSE IF windows[n][1].cmd \in {"zsh", "bash", "sh", "fish"} THEN "stopped"
    ELSE "running"

foundEntry(c) ==
    c.op = "ensureRegistryPort" /\ c.before.state = "ok" /\ c.name \in DOMAIN c.before.ports

foundNoEntry(c) ==
    c.op = "ensureRegistryPort" /\ c.before.state # "invalid"
                                /\ c.name \notin DOMAIN c.before.ports

\* C9: for a name that has an entry in the registry, ensureRegistryPort
\* returns that port whatever preferredPort, reservedPorts and the
\* availability of ports are, and does not write the file (so a repeated
\* call returns the same port).
C9_ExistingEntry ==
    foundEntry(call) =>
        /\ ~call.threw
        /\ call.port = call.before.ports[call.name]
        /\ ~call.created
        /\ call.writes = 0
        /\ registry = call.before

\* A second call for a name whose entry is a reserved or taken port and is
\* not the preferred port.
C9_Witness ==
    /\ foundEntry(call)
    /\ call.seq = 2
    /\ call.preferredPort # call.before.ports[call.name]
    /\ call.before.ports[call.name] \in call.reservedPorts \cup taken

\* p is neither a registry value nor a reserved port, and the probe
\* succeeds for it.
freePort(c, p) ==
    /\ p \notin {c.before.ports[n] : n \in DOMAIN c.before.ports}
    /\ p \notin c.reservedPorts
    /\ p \notin taken

\* The call has assigned the smallest free port from `start` on, or has
\* thrown because there is none, and the file holds what it held plus the
\* new entry.
assignsFrom(c, start) ==
    IF c.threw
    THEN /\ \A k \in start..65535 : ~freePort(c, k)
         /\ registry.ports = c.before.ports
    ELSE /\ start <= c.port
         /\ c.port <= 65535
         /\ freePort(c, c.port)
         /\ \A k \in start..(c.port - 1) : ~freePort(c, k)
         /\ c.created
         /\ registry.state = "ok"
         /\ DOMAIN registry.ports = DOMAIN c.before.ports \cup {c.name}
         /\ registry.ports[c.name] = c.port
         /\ \A n \in DOMAIN c.before.ports : registry.ports[n] = c.before.ports[n]

\* preferredPort, else basePort, else 3100.
givenStart(c) ==
    IF c.preferredPort # Undefined THEN c.preferredPort
    ELSE IF c.basePort # Undefined THEN c.basePort
    ELSE 3100

\* The same, but 3100 when that is no port (outside 1..65535).
normalizedStart(c) ==
    IF givenStart(c) >= 1 /\ givenStart(c) <= 65535 THEN givenStart(c) ELSE 3100

portsCatalog(dbPort, webPort) ==
    [i \in 1..MaxServices |->
        [name |-> CatalogOrder[i],
         dependsOn |-> <<>>,
         port |-> IF i = 1 THEN dbPort ELSE IF i = 2 THEN Undefined ELSE webPort,
         portMode |-> IF i <= 2 THEN "registry" ELSE "undefined"]]

\* Concurrent start requests on a readable or missing registry file that
\* holds no entry of the catalog.
InitPorts ==
    /\ services \in {portsCatalog(d, w) : d \in {Undefined, 3000}, w \in {3000, 3100}}
    /\ registry \in {MissingFile, PortsFile(EmptyPorts)}
    /\ session = TRUE
    /\ windows = NoWindows
    /\ envLeft = 0
    /\ slots = Requests
    /\ compose = <<>>
    /\ InitCommon

StartStep(r) ==
    \/ \E name \in Names : Receive(r, "start", name)
    \/ RegRead(r)
    \/ RegCreate(r)
    \/ RegWrite(r)
    \/ ResolvePorts(r)
    \/ HasSession(r)
    \/ ListWindows(r)
    \/ IsPaneDead(r)
    \/ IsPaneIdle(r)
    \/ KillWindow(r)
    \/ NewWindow(r)
    \/ SendKeys(r)
    \/ LastRead(r)
    \/ LastWrite(r)

NextPorts == \E r \in Requests : StartStep(r)

SpecPorts == InitPorts /\ [][NextPorts]_vars

\* The request is inside ensureRegistryPort, between its read of the file
\* and its write of it.
betweenReadAndWrite(q) == q.pc \in {"regCreate", "regWrite"}

\* C11: registry writes are serialized: no two executions of
\* ensureRegistryPort overlap between their read of the registry file and
\* their write of it.
C11_RegistrySerialized ==
    \A r1, r2 \in Requests :
        r1 # r2 => ~(betweenReadAndWrite(req[r1]) /\ betweenReadAndWrite(req[r2]))

\* C12: the registry only grows: across every step a name present in the
\* registry file stays present with the same port.
C12_RegistryOnlyGrows ==
    [][registry.state = "ok" =>
          /\ registry'.state = "ok"
          /\ \A n \in DOMAIN registry.ports :
                n \in DOMAIN registry'.ports /\ registry'.ports[n] = registry.ports[n]]_vars

\* The declared ports of the services of the catalog other than n.
declaredByOthers(n) ==
    {services[i].port : i \in {j \in 1..Len(services) : services[j].name # n}}

\* C13: a port newly allocated by the registry for a service during a
\* start never equals the declared port of another service of the catalog.
C13_AllocationAvoidsDeclared ==
    [][\A r \in Requests :
          (req[r].pc = "regWrite" /\ req'[r].pc = "ports") =>
              req'[r].resolvedPort \notin declaredByOthers(current(req[r]))]_vars

\* db prefers 3000, which web declares: the start of db has been given 3001
\* by the registry.
C13_Witness ==
    \E r \in Requests :
        /\ req[r].kind = "start"
        /\ req[r].pc = "ports"
        /\ current(req[r]) = "db"
        /\ 3000 \in declaredByOthers("db")
        /\ findService(services, "db").port = 3000
        /\ req[r].resolvedPort = 3001
        /\ registry.state = "ok"
        /\ "db" \in DOMAIN registry.ports
        /\ registry.ports["db"] = 3001

\* ------------------------------------------------ the graph, called alone

\* The dependsOn lists of the graph inputs: up to two entries, among them
\* a name that no service has.
DepListInputs ==
    {<<>>} \cup {<<a>> : a \in RouteNames} \cup {<<a, b>> : a \in RouteNames, b \in RouteNames}

\* The first k names, each with any of these lists.
GraphInputs(k) ==
    {[i \in 1..k |-> [name |-> CatalogOrder[i], dependsOn |-> f[i],
                      port |-> Undefined, portMode |-> "undefined"]] :
        f \in [1..k -> DepListInputs]}

createDependencyGraphThrows == createDependencyGraph(services) # "none"

\* createDependencyGraph(services): the error it throws and, for a cycle,
\* the path of its message.
CreateDependencyGraph ==
    /\ call' = [op |-> "createDependencyGraph",
                error |-> createDependencyGraph(services),
                cycle |-> IF createDependencyGraph(services) = "cycle"
                          THEN dependencyCycle(services) ELSE <<>>]
    /\ UNCHANGED <<services, lastStartedAt, now, registry, regWrites, taken, session,
                   windows, envLeft, slots, req, windows0,
                   compose, states, composeFiles, runtimeDetectedPorts, runtimeLastStartedAt>>

\* topoSort(graph, names) on a graph that was built.
TopoSort(names) ==
    /\ ~createDependencyGraphThrows
    /\ Range(names) \subseteq Range(order(services))
    /\ call' = [op |-> "topoSort", names |-> names, result |-> topoSort(services, names)]
    /\ UNCHANGED <<services, lastStartedAt, now, registry, regWrites, taken, session,
                   windows, envLeft, slots, req, windows0,
                   compose, states, composeFiles, runtimeDetectedPorts, runtimeLastStartedAt>>

\* A service with the lastStartedAt the file holds for it (0: none).
stamped(svc, stamp) ==
    [name |-> svc.name, dependsOn |-> svc.dependsOn, port |-> svc.port,
     portMode |-> svc.portMode, lastStartedAt |-> stamp]

\* upsertService(config, service), config being the services without
\* stamps (stamps = 0) or with one each (stamps = 1).
UpsertService(service, stamps) ==
    /\ LET config == [i \in 1..Len(services) |-> stamped(services[i], stamps * i)] IN
       call' = [op |-> "upsertService", config |-> config, service |-> service,
                result |-> upsertService(config, service)]
    /\ UNCHANGED <<services, lastStartedAt, now, registry, regWrites, taken, session,
                   windows, envLeft, slots, req, windows0,
                   compose, states, composeFiles, runtimeDetectedPorts, runtimeLastStartedAt>>

InitGraph ==
    /\ services \in UNION {GraphInputs(k) : k \in 1..MaxServices}
    /\ registry = MissingFile
    /\ session = FALSE
    /\ windows = NoWindows
    /\ envLeft = 0
    /\ slots = {}
    /\ compose = <<>>
    /\ InitCommon

NextGraph ==
    \/ CreateDependencyGraph
    \/ \E S \in SUBSET Names : TopoSort(FilterSeq(CatalogOrder, S))
    \/ \E n \in Names, stamp \in {0, MaxServices + 1}, stamps \in {0, 1} :
          UpsertService(stamped([name |-> n, dependsOn |-> <<>>, port |-> DEFAULT_REGISTRY_PORT,
                                 portMode |-> "static"], stamp), stamps)

SpecGraph == InitGraph /\ [][NextGraph]_vars

\* What a service of the catalog depends on in one or more steps.
transitiveDependencies(n) ==
    closure([m \in catalogNames |-> dependsOnOf(m) \cap catalogNames], dependsOnOf(n) \cap catalogNames)

\* Some dependsOn list names an absent service or the service itself, or
\* holds a name twice, or the dependencies form a cycle.
graphDefect ==
    \/ \E i \in 1..Len(services) :
          \/ \E d \in Range(services[i].dependsOn) : d \notin catalogNames
          \/ services[i].name \in Range(services[i].dependsOn)
          \/ \E j, k \in 1..Len(services[i].dependsOn) :
                j # k /\ services[i].dependsOn[j] = services[i].dependsOn[k]
    \/ \E n \in catalogNames : n \in transitiveDependencies(n)

\* path starts and ends at the same service and each consecutive pair of it
\* is a dependsOn edge.
isCyclePath(path) ==
    /\ Len(path) >= 2
    /\ path[1] = path[Len(path)]
    /\ \A i \in 1..(Len(path) - 1) : path[i + 1] \in dependsOnOf(path[i])

\* C14: createDependencyGraph fails exactly when some dependsOn entry
\* names an absent service, names the service itself or is duplicated, or
\* the dependencies form a cycle; the path reported for a cycle starts and
\* ends at the same service and follows dependsOn edges.
C14_GraphRejections ==
    call.op = "createDependencyGraph" =>
        /\ (call.error # "none") <=> graphDefect
        /\ call.error = "cycle" <=> call.cycle # <<>>
        /\ call.cycle # <<>> => isCyclePath(call.cycle)

\* A cycle through all the services was reported.
C14_Witness ==
    /\ call.op = "createDependencyGraph"
    /\ call.error = "cycle"
    /\ Len(call.cycle) = MaxServices + 1

\* C15: for every valid graph and every subset of its names topoSort
\* returns each name of the subset exactly once, every service after all
\* the services of the subset it transitively depends on.
C15_TopoSortOrder ==
    call.op = "topoSort" =>
        /\ Range(call.result) = Range(call.names)
        /\ \A i, j \in 1..Len(call.result) : i # j => call.result[i] # call.result[j]
        /\ \A i, j \in 1..Len(call.result) :
              call.result[j] \in transitiveDependencies(call.result[i]) => j < i

\* ------------------------------------------------- the catalog's routes

\* POST /services and PUT /services/:name up to the first await: the body
\* is parsed, and for PUT its name compared with the route's.
ReceiveUpsert(r, kind, name, body) ==
    /\ r \in slots
    /\ req[r].pc = "idle"
    /\ kind \in {"post", "put"}
    /\ kind = "post" => name = body.data.name
    /\ LET q == [IdleRequest EXCEPT !.kind = kind, !.name = name, !.body = body] IN
       setReq(r, IF ~body.parsed THEN respond(q, 400)
                 ELSE IF body.data.name # name THEN respond(q, 400)
                 ELSE [q EXCEPT !.pc = "readConfig"])
    /\ UNCHANGED <<services, lastStartedAt, now, registry, regWrites, taken, session,
                   windows, envLeft, slots, call, windows0,
                   compose, states, composeFiles, runtimeDetectedPorts, runtimeLastStartedAt>>

\* DELETE /services/:name and GET /services/:name/config: nothing happens
\* before the configuration is read.
ReceiveByName(r, kind, name) ==
    /\ r \in slots
    /\ req[r].pc = "idle"
    /\ kind \in {"delete", "config"}
    /\ setReq(r, [IdleRequest EXCEPT !.kind = kind, !.name = name, !.pc = "readConfig"])
    /\ UNCHANGED <<services, lastStartedAt, now, registry, regWrites, taken, session,
                   windows, envLeft, slots, call, windows0,
                   compose, states, composeFiles, runtimeDetectedPorts, runtimeLastStartedAt>>

\* readConfig(configPath): the request keeps what the file holds now.
ReadConfig(r) ==
    /\ req[r].pc = "readConfig"
    /\ setReq(r, [req[r] EXCEPT !.pc = "buildCatalog", !.config = services,
                                !.cfg = lastStartedAt])
    /\ UNCHANGED <<services, lastStartedAt, now, registry, regWrites, taken, session,
                   windows, envLeft, slots, call, windows0,
                   compose, states, composeFiles, runtimeDetectedPorts, runtimeLastStartedAt>>

\* What GET /services/:name/config answers on the catalog it built.
configAnswer(catalog, config, name) ==
    IF ~hasService(catalog.services, name) THEN 404
    ELSE IF isComposeManagedService(catalog.sources, name)
    THEN IF hasService(compose, name) THEN 200 ELSE 404
    ELSE IF hasService(config, name) THEN 200 ELSE 404

\* buildCatalogFromConfig(config) and what follows it without await: the
\* 400 for a catalog that does not build or a compose-managed name, the
\* answer of the config route, removeService or upsertService.
BuildCatalog(r) ==
    /\ req[r].pc = "buildCatalog"
    /\ LET q == req[r]
           catalog == buildCatalogFromConfig(q.config, compose)
       IN  setReq(r,
             IF catalog.threw THEN respond(q, 400)
             ELSE IF q.kind = "config"
             THEN respond(q, configAnswer(catalog, q.config, q.name))
             ELSE IF isComposeManagedService(catalog.sources, q.name) THEN respond(q, 400)
             ELSE IF q.kind = "delete"
             THEN [q EXCEPT !.pc = "writeConfig", !.nextConfig = removeService(q.config, q.name)]
             ELSE [q EXCEPT !.pc = "validate",
                            !.nextConfig = upsertService(q.config, q.body.data)])
    /\ UNCHANGED <<services, lastStartedAt, now, registry, regWrites, taken, session,
                   windows, envLeft, slots, call, windows0,
                   compose, states, composeFiles, runtimeDetectedPorts, runtimeLastStartedAt>>

\* buildCatalogFromConfig(nextConfig) and createDependencyGraph: a failure
\* of either answers 400.
Validate(r) ==
    /\ req[r].pc = "validate"
    /\ LET q == req[r]
           nextCatalog == buildCatalogFromConfig(q.nextConfig, compose)
       IN  setReq(r, IF nextCatalog.threw THEN respond(q, 400)
                     ELSE IF validateGraph(nextCatalog.services) # "none" THEN respond(q, 400)
                     ELSE [q EXCEPT !.pc = "writeConfig"])
    /\ UNCHANGED <<services, lastStartedAt, now, registry, regWrites, taken, session,
                   windows, envLeft, slots, call, windows0,
                   compose, states, composeFiles, runtimeDetectedPorts, runtimeLastStartedAt>>

\* writeConfig(configPath, nextConfig): the file becomes nextConfig; DELETE
\* then drops the name from the runtime maps; { ok: true }.
WriteConfig(r) ==
    /\ req[r].pc = "writeConfig"
    /\ services' = req[r].nextConfig
    /\ lastStartedAt' = [n \in DOMAIN req[r].cfg |->
                            IF req[r].kind = "delete" /\ n = req[r].name THEN 0
                            ELSE req[r].cfg[n]]
    /\ IF req[r].kind = "delete"
       THEN /\ runtimeDetectedPorts' = withoutKey(runtimeDetectedPorts, req[r].name)
            /\ runtimeLastStartedAt' = withoutKey(runtimeLastStartedAt, req[r].name)
       ELSE UNCHANGED <<runtimeDetectedPorts, runtimeLastStartedAt>>
    /\ setReq(r, respond(req[r], 200))
    /\ UNCHANGED <<now, registry, regWrites, taken, session,
                   windows, envLeft, slots, call, windows0, compose, states, composeFiles>>

\* A current service that takes nothing from the detection.
withoutDetectedPort(svc, port) == svc

\* { ...current, port }
withDetectedPort(svc, port) == [svc EXCEPT !.port = port]

\* schedulePortDetection(sources, service, baseline, logger) after a start
\* in detect mode: the task holds the sources of the catalog the start
\* request built, and polls the pane.
SchedulePortDetection(r, name) ==
    /\ r \in slots
    /\ req[r].pc = "idle"
    /\ LET catalog == buildCatalogFromConfig(services, compose) IN
       /\ ~catalog.threw
       /\ hasService(catalog.services, name)
       /\ setReq(r, [IdleRequest EXCEPT !.kind = "detect", !.name = name, !.pc = "detecting",
                        !.source = IF isComposeManagedService(catalog.sources, name)
                                   THEN "compose" ELSE "config"])
    /\ UNCHANGED <<services, lastStartedAt, now, registry, regWrites, taken, session,
                   windows, envLeft, slots, call, windows0,
                   compose, states, composeFiles, runtimeDetectedPorts, runtimeLastStartedAt>>

\* detectPortFromLogs returns a port and persistDetectedPort runs up to its
\* await: the runtime map takes the port, and a service that is not
\* config-sourced is done.
DetectedPort(r, port) ==
    /\ req[r].pc = "detecting"
    /\ runtimeDetectedPorts' = withPort(runtimeDetectedPorts, req[r].name, port)
    /\ setReq(r, IF req[r].source # "config" THEN respond(req[r], 0)
                 ELSE [req[r] EXCEPT !.pc = "persistRead", !.resolvedPort = port])
    /\ UNCHANGED <<services, lastStartedAt, now, registry, regWrites, taken, session,
                   windows, envLeft, slots, call, windows0,
                   compose, states, composeFiles, runtimeLastStartedAt>>

\* persistDetectedPort: readConfig, findService, the return when the
\* service is gone or has the port already, upsertService.
PersistRead(r) ==
    /\ req[r].pc = "persistRead"
    /\ LET q == req[r] IN
       setReq(r, IF ~hasService(services, q.name) THEN respond(q, 0)
                 ELSE IF findService(services, q.name).port = q.resolvedPort THEN respond(q, 0)
                 ELSE [q EXCEPT !.pc = "persistWrite", !.cfg = lastStartedAt,
                          !.nextConfig = upsertService(services,
                              withDetectedPort(findService(services, q.name), q.resolvedPort))])
    /\ UNCHANGED <<services, lastStartedAt, now, registry, regWrites, taken, session,
                   windows, envLeft, slots, call, windows0,
                   compose, states, composeFiles, runtimeDetectedPorts, runtimeLastStartedAt>>

\* persistDetectedPort: writeConfig(configPath, nextConfig).
PersistWrite(r) ==
    /\ req[r].pc = "persistWrite"
    /\ services' = req[r].nextConfig
    /\ lastStartedAt' = req[r].cfg
    /\ setReq(r, respond(req[r], 0))
    /\ UNCHANGED <<now, registry, regWrites, taken, session,
                   windows, envLeft, slots, call, windows0,
                   compose, states, composeFiles, runtimeDetectedPorts, runtimeLastStartedAt>>

\* A failure of the task that no catch holds: the rejection ends the
\* process and with it the requests being served.
unhandled(r) ==
    req' = [q \in Requests |->
               IF q = r \/ req[q].pc \notin {"idle", "done"} THEN respond(req[q], 500)
               ELSE req[q]]

\* The catch of schedulePortDetection: logger.error, and the task is over.
logged(r) == setReq(r, respond(logCall(req[r], "loggerError", req[r].name), 0))

\* One round of detectPortFromLogs that returns no port: delay, then
\* capturePane, which throws or shows nothing new; the round that spends
\* the budget ends the loop, and the task with it.
PollPane(r, threw) ==
    /\ req[r].pc = "detecting"
    /\ IF threw THEN logged(r)
       ELSE IF req[r].stamp + 1 >= PollBudget THEN setReq(r, respond(req[r], 0))
       ELSE setReq(r, [req[r] EXCEPT !.stamp = @ + 1])
    /\ UNCHANGED <<services, lastStartedAt, now, registry, regWrites, taken, session,
                   windows, envLeft, slots, call, windows0,
                   compose, states, composeFiles, runtimeDetectedPorts, runtimeLastStartedAt>>

\* resolveServiceCatalog called alone (as at startup): whether it throws,
\* and the services and sources it returns.
ResolveServiceCatalog ==
    /\ LET catalog == buildCatalogFromConfig(services, compose) IN
       call' = [op |-> "resolveServiceCatalog", config |-> services, compose |-> compose,
                threw |-> catalog.threw,
                services |-> catalog.services, sources |-> catalog.sources]
    /\ UNCHANGED <<services, lastStartedAt, now, registry, regWrites, taken, session,
                   windows, envLeft, slots, req, windows0,
                   compose, states, composeFiles, runtimeDetectedPorts, runtimeLastStartedAt>>

\* A service of the configuration file or of a compose file.
service(name, dependsOn) ==
    [name |-> name, dependsOn |-> dependsOn, port |-> Undefined, portMode |-> "undefined"]

\* What the configuration file holds at first.
ConfigInputs ==
    {<<>>,
     <<service(CatalogOrder[1], <<>>)>>,
     <<service(CatalogOrder[1], <<>>), service(CatalogOrder[2], <<CatalogOrder[1]>>)>>,
     <<service(CatalogOrder[2], <<CatalogOrder[3]>>)>>}

\* What the registered compose projects hold: nothing, one service, one
\* that depends on a service of the configuration, one whose name the
\* configuration may hold too, two of the same name.
ComposeInputs ==
    {<<>>,
     <<service(CatalogOrder[3], <<>>)>>,
     <<service(CatalogOrder[3], <<CatalogOrder[1]>>)>>,
     <<service(CatalogOrder[2], <<>>)>>,
     <<service(CatalogOrder[3], <<>>), service(CatalogOrder[3], <<>>)>>}

\* devServerServiceSchema on the fields the model keeps: a name of at
\* least one character, dependsOn entries likewise, a port that when
\* present is an integer above zero, a portMode of the enum.
devServerServiceSchema(data) ==
    /\ data.name # ""
    /\ \A i \in 1..Len(data.dependsOn) : data.dependsOn[i] # ""
    /\ data.port = Undefined \/ data.port > 0
    /\ data.portMode \in {"undefined", "static", "detect", "registry"}

\* devServerServiceSchema.safeParse(request.body)
safeParse(data) == [parsed |-> devServerServiceSchema(data), data |-> data]

\* The bodies a POST or PUT carries: one without a name, then services
\* with no dependency, with an unknown one, with itself, with a service
\* that may depend on it, services of the other names, and services with
\* a port of zero and a port above 65535.
BodyInputs ==
    {safeParse(NoBody.data)} \cup
    {safeParse(service(CatalogOrder[1], d)) :
        d \in {<<>>, <<"ghost">>, <<CatalogOrder[1]>>, <<CatalogOrder[2]>>}} \cup
    {safeParse(service(CatalogOrder[2], <<CatalogOrder[1]>>)),
     safeParse(service(CatalogOrder[3], <<>>))} \cup
    {safeParse([service(CatalogOrder[1], <<>>) EXCEPT !.port = p]) : p \in {0, MAX_PORT + 5}}

\* The names a PUT with this body is routed to: the body's and another.
PutNames(body) == {n \in Names : n = body.data.name \/ n = CatalogOrder[1]}

\* The entries the runtime maps hold once services have been started.
RuntimeInputs == {[n \in Names |-> 1]}

\* The daemon after startup: either the merged catalog does not build, or
\* it builds and its graph is valid.
InitCatalog ==
    /\ services \in ConfigInputs
    /\ compose \in ComposeInputs
    /\ LET catalog == buildCatalogFromConfig(services, compose) IN
       IF catalog.threw THEN TRUE ELSE createDependencyGraph(catalog.services) = "none"
    /\ runtimeLastStartedAt \in RuntimeInputs
    /\ runtimeDetectedPorts = runtimeLastStartedAt
    /\ lastStartedAt = [n \in Names |-> 0]
    /\ now = 1
    /\ registry = MissingFile
    /\ regWrites = 0
    /\ taken = {}
    /\ session = TRUE
    /\ windows = NoWindows
    /\ windows0 = windows
    /\ envLeft = 0
    /\ slots = Requests
    /\ req = [r \in Requests |-> IdleRequest]
    /\ call = NoCall
    /\ states = NoStates
    /\ composeFiles = NoFiles

CatalogStep(r) ==
    \/ \E body \in BodyInputs : ReceiveUpsert(r, "post", body.data.name, body)
    \/ \E body \in BodyInputs : \E name \in PutNames(body) : ReceiveUpsert(r, "put", name, body)
    \/ \E kind \in {"delete", "config"}, name \in RouteNames : ReceiveByName(r, kind, name)
    \/ ReadConfig(r)
    \/ BuildCatalog(r)
    \/ Validate(r)
    \/ WriteConfig(r)
    \/ \E name \in Names : SchedulePortDetection(r, name)
    \/ DetectedPort(r, DEFAULT_REGISTRY_PORT + 1)
    \/ PersistRead(r)
    \/ PersistWrite(r)

NextCatalog ==
    \/ \E r \in Requests : CatalogStep(r)
    \/ ResolveServiceCatalog

SpecCatalog == InitCatalog /\ [][NextCatalog]_vars

\* The detection tasks of the daemon next to requests that read the
\* catalog; the event loop runs every task that can take a step.
NextDetect ==
    \E r \in Requests :
        \/ \E name \in Names : SchedulePortDetection(r, name)
        \/ \E threw \in BOOLEAN : PollPane(r, threw)
        \/ DetectedPort(r, DEFAULT_REGISTRY_PORT + 1)
        \/ PersistRead(r)
        \/ PersistWrite(r)
        \/ \E name \in RouteNames : ReceiveByName(r, "config", name)
        \/ ReadConfig(r)
        \/ BuildCatalog(r)

SpecDetect ==
    /\ InitCatalog
    /\ [][NextDetect]_vars
    /\ \A r \in Requests :
          WF_vars((\E threw \in BOOLEAN : PollPane(r, threw)) \/ PersistRead(r) \/ PersistWrite(r))

\* ------------------------------------------------- syncing the projects

\* sync returned to buildCatalogFromConfig, which calls getServices().
syncReturns(q, st) == [respond(q, 200) EXCEPT !.config = getServices(st)]

\* composeProjects.sync(projects, logger) up to its first await: the
\* states of the projects that are not in the list are closed and deleted,
\* then the loop runs.
Sync(r, projects) ==
    /\ r \in slots
    /\ req[r].pc = "idle"
    /\ LET nextNames == {projects[i].name : i \in 1..Len(projects)}
           res == syncFrom([n \in DOMAIN states \cap nextNames |-> states[n]], projects, 1, r)
           q == [IdleRequest EXCEPT !.kind = "sync", !.order = projects, !.idx = res.idx]
       IN  /\ states' = res.states
           /\ setReq(r, IF res.idx > Len(projects) THEN syncReturns(q, res.states)
                        ELSE [q EXCEPT !.pc = "reload"])
    /\ UNCHANGED <<services, lastStartedAt, now, registry, regWrites, taken, session,
                   windows, envLeft, slots, call, windows0,
                   compose, composeFiles, runtimeDetectedPorts, runtimeLastStartedAt>>

\* The reloadProject that sync awaits ends: it has written into the state
\* object it was given, which the map may hold no more; ensureWatcher on
\* that object, and the loop goes on.
ReloadProject(r) ==
    /\ req[r].pc = "reload"
    /\ LET q == req[r]
           name == q.order[q.idx].name
           mine == IF name \notin DOMAIN states THEN FALSE ELSE states[name].id = <<r, q.idx>>
           st == IF ~mine THEN states
                 ELSE [states EXCEPT ![name] =
                          [reloadProject(@, composeFiles[@.rootPath], TRUE) EXCEPT
                              !.watcher = TRUE]]
           res == syncFrom(st, q.order, q.idx + 1, r)
       IN  /\ states' = res.states
           /\ setReq(r, IF res.idx > Len(q.order)
                        THEN syncReturns([q EXCEPT !.idx = res.idx], res.states)
                        ELSE [q EXCEPT !.idx = res.idx])
    /\ UNCHANGED <<services, lastStartedAt, now, registry, regWrites, taken, session,
                   windows, envLeft, slots, call, windows0,
                   compose, composeFiles, runtimeDetectedPorts, runtimeLastStartedAt>>

\* The timer of scheduleReload fires after a watcher event:
\* reloadProject(state, logger) without force.
TimerReload(name) ==
    /\ name \in DOMAIN states
    /\ states[name].watcher
    /\ states' = [states EXCEPT ![name] = reloadProject(@, composeFiles[@.rootPath], FALSE)]
    /\ states' # states
    /\ UNCHANGED <<services, lastStartedAt, now, registry, regWrites, taken, session,
                   windows, envLeft, slots, req, call, windows0,
                   compose, composeFiles, runtimeDetectedPorts, runtimeLastStartedAt>>

\* Someone writes, breaks or removes the compose file of a project.
FileChanges(path, content) ==
    /\ envLeft > 0
    /\ composeFiles[path].content # content
    /\ composeFiles' = [composeFiles EXCEPT ![path] = composeFile(content, @.mtimeMs + 1)]
    /\ envLeft' = envLeft - 1
    /\ UNCHANGED <<services, lastStartedAt, now, registry, regWrites, taken, session,
                   windows, slots, req, call, windows0,
                   compose, states, runtimeDetectedPorts, runtimeLastStartedAt>>

\* The lists of registered projects the requests read from the config.
ProjectInputs ==
    LET project(name, path) == [name |-> name, path |-> path] IN
    {<<>>, <<project("p", "/a")>>, <<project("p", "/b")>>,
     <<project("p", "/a"), project("q", "/b")>>}

\* The daemon after startup, no project tracked yet; MaxRequests requests
\* call sync, and the compose files change MaxEnv times.
InitLoader ==
    /\ states = NoStates
    /\ composeFiles \in [RootPaths -> {composeFile(c, 1) :
                                           c \in {"valid", "invalid", "unreadable", "missing"}}]
    /\ services = <<>>
    /\ compose = <<>>
    /\ lastStartedAt = [n \in Names |-> 0]
    /\ now = 1
    /\ registry = MissingFile
    /\ regWrites = 0
    /\ taken = {}
    /\ session = FALSE
    /\ windows = NoWindows
    /\ windows0 = windows
    /\ envLeft = MaxEnv
    /\ slots = Requests
    /\ req = [r \in Requests |-> IdleRequest]
    /\ call = NoCall
    /\ runtimeDetectedPorts = EmptyPorts
    /\ runtimeLastStartedAt = EmptyPorts

NextLoader ==
    \/ \E r \in Requests : \E projects \in ProjectInputs : Sync(r, projects)
    \/ \E r \in Requests : ReloadProject(r)
    \/ \E name \in {"p", "q"} : TimerReload(name)
    \/ \E path \in RootPaths, content \in {"valid", "invalid", "unreadable", "missing"} :
          FileChanges(path, content)

SpecLoader == InitLoader /\ [][NextLoader]_vars

\* ------------------------------------------- properties of the catalog

\* The names of a list of services.
namesOf(list) == {list[i].name : i \in 1..Len(list)}

\* No two services of the list share a name.
distinctNames(list) == \A i, j \in 1..Len(list) : i # j => list[i].name # list[j].name

\* Every dependsOn entry of the list names a service of the list.
dependenciesExist(list) == \A i \in 1..Len(list) : Range(list[i].dependsOn) \subseteq namesOf(list)

\* What each name of the list depends on directly, within the list.
edgesOf(list) ==
    [n \in namesOf(list) |->
        UNION {Range(list[i].dependsOn) \cap namesOf(list) :
                  i \in {j \in 1..Len(list) : list[j].name = n}}]

\* No service of the list depends on itself, directly or not.
acyclic(list) == \A n \in namesOf(list) : n \notin closure(edgesOf(list), edgesOf(list)[n])

\* C16: after accepted POST, PUT and DELETE requests from a valid catalog,
\* every dependsOn entry of the merged catalog names a service of the merged
\* catalog and the dependency graph has no cycle.
C16_StoredCatalogValid ==
    distinctNames(services \o compose) =>
        /\ dependenciesExist(services \o compose)
        /\ acyclic(services \o compose)

\* The step request r takes, if it takes one.
steps(r) == req'[r] # req[r]

rejected(q) == q.pc = "done" /\ q.status = 400

\* The body fails the schema, or for PUT names another service than the route.
badBody(q) == ~q.body.parsed \/ (q.kind = "put" /\ q.body.data.name # q.name)

\* The catalog the request would store fails to build or to validate.
badGraph(q) ==
    LET next == q.nextConfig \o compose IN
    \/ ~distinctNames(next)
    \/ ~dependenciesExist(next)
    \/ ~acyclic(next)
    \/ \E i \in 1..Len(next) : Len(next[i].dependsOn) # Cardinality(Range(next[i].dependsOn))

\* C17: a POST or PUT with a body the schema refuses, with a body name other
\* than the route's, or whose resulting graph fails validation, responds 400;
\* and the step that ends a POST or PUT with 400, like every step before it,
\* leaves the configuration file as it was.
C17_RejectedUpsert ==
    [][\A r \in Requests :
          (steps(r) /\ req'[r].kind \in {"post", "put"}) =>
              /\ (req[r].pc = "idle" /\ badBody(req'[r])) => rejected(req'[r])
              /\ (req[r].pc = "validate" /\ badGraph(req[r])) => rejected(req'[r])
              /\ (rejected(req'[r]) \/ req[r].pc # "writeConfig") =>
                     UNCHANGED <<services, lastStartedAt>>]_vars

\* A PUT whose graph fails validation has been answered 400, and the
\* configuration file holds what it held.
C17_Witness ==
    \E r \in Requests :
        /\ req[r].kind = "put"
        /\ rejected(req[r])
        /\ req[r].body.parsed
        /\ req[r].body.data.name = req[r].name
        /\ req[r].body.data.dependsOn = <<"ghost">>
        /\ hasService(services, req[r].name)
        /\ findService(services, req[r].name).dependsOn = <<>>

\* The merged catalog of the request's configuration attributes the
\* request's name to a compose file.
composeNamed(q) ==
    /\ distinctNames(q.config \o compose)
    /\ q.name \in namesOf(compose)

C19_CatalogNamesUnique ==
    call.op = "resolveServiceCatalog" =>
        /\ call.threw <=> ~distinctNames(call.config \o call.compose)
        /\ ~call.threw =>
              /\ distinctNames(call.services)
              /\ namesOf(call.services) = namesOf(call.config) \cup namesOf(call.compose)
              /\ DOMAIN call.sources = namesOf(call.services)
              /\ \A n \in DOMAIN call.sources :
                    /\ call.sources[n] = "config" <=> n \in namesOf(call.config)
                    /\ call.sources[n] = "compose" <=> n \in namesOf(call.compose)

\* The build has failed on a name that the configuration and a compose
\* file both hold.
C19_Witness ==
    /\ call.op = "resolveServiceCatalog"
    /\ call.threw
    /\ namesOf(call.config) \cap namesOf(call.compose) # {}

\* C20: GET /services/:name/config and DELETE /services/:name with a name
\* that is not in the merged catalog respond 404 and make no supervisor call.
C20_UnknownNameIs404 ==
    [][\A r \in Requests :
          (steps(r) /\ req[r].pc = "buildCatalog"
                    /\ req[r].kind \in {"config", "delete"}
                    /\ distinctNames(req[r].config \o compose)
                    /\ req[r].name \notin namesOf(req[r].config \o compose)) =>
              /\ req'[r].pc = "done"
              /\ req'[r].status = 404
              /\ req'[r].calls = <<>>]_vars

\* C21: after accepted POST and PUT requests, every service stored in the
\* configuration file has no port or an integer port in 1..65535.
C21_StoredPortsInRange ==
    \A i \in 1..Len(services) :
        services[i].port = Undefined \/ services[i].port \in 1..MAX_PORT

\* C22: upsertService on a name of the catalog replaces that entry at its
\* position, with the previous lastStartedAt when the new definition has
\* none, and leaves every other service as it was; on another name it
\* appends the service and changes nothing else.
C22_UpsertInPlace ==
    call.op = "upsertService" =>
        LET c == call.config
            s == call.service
            r == call.result
        IN  IF s.name \in namesOf(c)
            THEN /\ Len(r) = Len(c)
                 /\ \A i \in 1..Len(c) :
                       IF c[i].name = s.name
                       THEN r[i] = [s EXCEPT !.lastStartedAt =
                                       IF s.lastStartedAt = 0 THEN c[i].lastStartedAt
                                       ELSE s.lastStartedAt]
                       ELSE r[i] = c[i]
            ELSE /\ Len(r) = Len(c) + 1
                 /\ r[Len(r)] = s
                 /\ \A i \in 1..Len(c) : r[i] = c[i]

\* A definition without lastStartedAt has replaced a service that had one,
\* which is not the catalog's last.
C22_Witness ==
    /\ call.op = "upsertService"
    /\ call.service.lastStartedAt = 0
    /\ \E i \in 1..(Len(call.config) - 1) :
          /\ call.config[i].name = call.service.name
          /\ call.config[i].lastStartedAt # 0
          /\ call.result[i].port = call.service.port

\* C23: when log detection succeeds, the runtime map takes the port; for a
\* config-sourced service whose entry the file holds with another port,
\* the write that follows puts the port into that entry and leaves the
\* other entries of what was read as they were; for a compose-sourced
\* service the task ends there and no step of it changes the file.
C23_DetectedPortPersisted ==
    [][\A r \in Requests :
          (steps(r) /\ req[r].kind = "detect") =>
              /\ req[r].pc = "detecting" =>
                    /\ req[r].name \in DOMAIN runtimeDetectedPorts'
                    /\ runtimeDetectedPorts'[req[r].name] \in 1..MAX_PORT
                    /\ runtimeDetectedPorts'[req[r].name] = req'[r].resolvedPort
                          \/ req[r].source = "compose"
              /\ req[r].source = "compose" =>
                    /\ req'[r].pc = "done"
                    /\ UNCHANGED <<services, lastStartedAt>>
              /\ (req[r].source = "config" /\ req[r].pc = "persistRead"
                     /\ req[r].name \in namesOf(services)
                     /\ \E i \in 1..Len(services) :
                           services[i].name = req[r].name /\ services[i].port # req[r].resolvedPort)
                    => req'[r].pc = "persistWrite"
              /\ req[r].pc = "persistWrite" =>
                    /\ Len(services') = Len(req[r].nextConfig)
                    /\ \E i \in 1..Len(services') :
                          /\ services'[i].name = req[r].name
                          /\ services'[i].port = req[r].resolvedPort
                          /\ services'[i].dependsOn = findService(req[r].nextConfig, req[r].name).dependsOn]_vars

\* The configuration file holds the detected port in the entry of a
\* config-sourced service, and a detection for a compose service has ended
\* with the port in the runtime map only.
C23_Witness ==
    /\ \E r \in Requests :
          /\ req[r].kind = "detect" /\ req[r].pc = "done" /\ req[r].source = "config"
          /\ hasService(services, req[r].name)
          /\ findService(services, req[r].name).port = runtimeDetectedPorts[req[r].name]
    /\ \E r \in Requests :
          /\ req[r].kind = "detect" /\ req[r].pc = "done" /\ req[r].source = "compose"
          /\ runtimeDetectedPorts[req[r].name] = DEFAULT_REGISTRY_PORT + 1
          /\ ~hasService(services, req[r].name)

\* ------------------------------------------ compose files and templates

\* In this part a name is the sequence of its parts between underscores
\* (p_db is <<"p", "db">>), and an env value is a sequence of pieces: a
\* character that is a word character ("a") or not ("/"), an own-port
\* token ("$PORT" or "${PORT}"), a named token ${PORT:name}, or the digits
\* of a port.
piece(t, text, name, port) == [t |-> t, text |-> text, name |-> name, port |-> port]

\* serviceName.startsWith(`${projectName}_`) ? serviceName : prefix + serviceName
prefixServiceName(projectName, serviceName) ==
    IF /\ Len(serviceName) > Len(projectName)
       /\ SubSeq(serviceName, 1, Len(projectName)) = projectName
    THEN serviceName
    ELSE projectName \o serviceName

\* A rewriting that leaves the value as it is.
keepValue(value, localServiceNames, projectName) == value

\* value.replace(PORT_REFERENCE_TOKEN, ...)
rewriteLocalPortReferences(value, localServiceNames, projectName) ==
    [i \in 1..Len(value) |->
        IF value[i].t # "ref" THEN value[i]
        ELSE IF value[i].name \notin localServiceNames THEN value[i]
        ELSE piece("ref", "", prefixServiceName(projectName, value[i].name), Undefined)]

\* parseComposeServices on the services of the payload, as far as names,
\* dependsOn and env go.
parseComposeServices(projectName, rawServices) ==
    LET localServiceNames == {rawServices[i].name : i \in 1..Len(rawServices)} IN
    [k \in 1..Len(rawServices) |->
        [name |-> prefixServiceName(projectName, rawServices[k].name),
         dependsOn |->
             [i \in 1..Len(rawServices[k].dependsOn) |->
                 IF rawServices[k].dependsOn[i] \notin localServiceNames
                 THEN rawServices[k].dependsOn[i]
                 ELSE prefixServiceName(projectName, rawServices[k].dependsOn[i])],
         env |-> [e \in 1..Len(rawServices[k].env) |->
                     rewriteLocalPortReferences(rawServices[k].env[e],
                                                localServiceNames, projectName)]]]

\* SELF_PORT_TOKEN matches the piece at i: ${PORT} anywhere, $PORT where
\* a word boundary follows it.
selfTokenAt(value, i) ==
    /\ value[i].t = "self"
    /\ IF value[i].text = "${PORT}" THEN TRUE
       ELSE IF i = Len(value) THEN TRUE
       ELSE ~(value[i + 1].t = "num" \/ (value[i + 1].t = "lit" /\ value[i + 1].text = "a"))

applyPortTemplate(value, port, servicePorts) ==
    LET resolved == [i \in 1..Len(value) |->
                        IF value[i].t # "ref" THEN value[i]
                        ELSE IF ~isValidPort(portOf(servicePorts, value[i].name)) THEN value[i]
                        ELSE piece("num", "", <<>>, portOf(servicePorts, value[i].name))]
    IN  IF ~isValidPort(port) THEN resolved
        ELSE [i \in 1..Len(resolved) |->
                 IF selfTokenAt(resolved, i) THEN piece("num", "", <<>>, port) ELSE resolved[i]]

ProjectName == <<"p">>

\* The services of a payload: one, or one followed by a plain second.
\* Their names are db, api and p_db; their dependsOn lists hold local
\* names, a name that is local to no file here, or both; their env is
\* absent or holds one value.
PayloadInputs ==
    LET lit(text) == piece("lit", text, <<>>, Undefined)
        self(text) == piece("self", text, <<>>, Undefined)
        ref(name) == piece("ref", "", name, Undefined)
        names == {<<"db">>, <<"api">>, <<"p", "db">>}
        deps == {<<>>, <<<<"db">>, <<"ext">>>>} \cup {<<n>> : n \in names \cup {<<"ext">>}}
        values == {<<lit("/"), ref(n)>> : n \in names \cup {<<"ext">>}} \cup
                  {<<self("$PORT"), ref(<<"db">>)>>,
                   <<ref(<<"db">>), self("$PORT")>>,
                   <<self("$PORT"), lit("/"), self("${PORT}")>>,
                   <<self("$PORT"), lit("a"), ref(<<"ext">>)>>}
        first == [name : names, dependsOn : deps, env : {<<>>} \cup {<<v>> : v \in values}]
    IN  {<<f>> : f \in first} \cup
        {<<f, [name |-> n, dependsOn |-> <<>>, env |-> <<>>]>> : f \in first, n \in names}

\* parseComposeServices(project, payload), compose holding the services of
\* the payload.
ParseComposeServices ==
    /\ call = NoCall
    /\ call' = [op |-> "parseComposeServices", raw |-> compose,
                result |-> parseComposeServices(ProjectName, compose)]
    /\ UNCHANGED <<services, lastStartedAt, now, registry, regWrites, taken, session,
                   windows, envLeft, slots, req, windows0,
                   compose, states, composeFiles, runtimeDetectedPorts, runtimeLastStartedAt>>

\* applyPortTemplate(value, port, servicePorts) on an env value of a
\* service of the payload as parseComposeServices gives it.
ApplyPortTemplate(k, port, servicePorts) ==
    /\ call = NoCall
    /\ k \in 1..Len(compose)
    /\ compose[k].env # <<>>
    /\ LET value == parseComposeServices(ProjectName, compose)[k].env[1] IN
       call' = [op |-> "applyPortTemplate", value |-> value, port |-> port,
                servicePorts |-> servicePorts,
                result |-> applyPortTemplate(value, port, servicePorts)]
    /\ UNCHANGED <<services, lastStartedAt, now, registry, regWrites, taken, session,
                   windows, envLeft, slots, req, windows0,
                   compose, states, composeFiles, runtimeDetectedPorts, runtimeLastStartedAt>>

InitEnv ==
    /\ compose \in {c \in PayloadInputs : \A i, j \in 1..Len(c) : i # j => c[i].name # c[j].name}
    /\ services = <<>>
    /\ registry = MissingFile
    /\ session = FALSE
    /\ windows = NoWindows
    /\ envLeft = 0
    /\ slots = {}
    /\ InitCommon

NextEnv ==
    \/ ParseComposeServices
    \/ \E k \in 1..2, port \in {Undefined, 0, DEFAULT_REGISTRY_PORT, MAX_PORT + 1},
          dbPort \in {Undefined, 0, DEFAULT_REGISTRY_PORT, MAX_PORT + 1} :
          ApplyPortTemplate(k, port, IF dbPort = Undefined THEN EmptyPorts
                                     ELSE withPort(EmptyPorts, <<"p", "db">>, dbPort))

SpecEnv == InitEnv /\ [][NextEnv]_vars

\* The merged name of the payload's service named n.
mergedNameOf(raw, result, n) == result[CHOOSE j \in 1..Len(raw) : raw[j].name = n].name

ownToken(value, i) ==
    /\ value[i].t = "self"
    /\ value[i].text = "$PORT" => (i = Len(value) \/ value[i + 1].t # "lit" \/ value[i + 1].text # "a")

\* C25: applyPortTemplate replaces every ${PORT:name} token whose service
\* has a valid port in the map by that port and keeps the other named
\* tokens; it replaces the tokens $PORT and ${PORT} by the own port when
\* that is valid and keeps them otherwise; everything else stays.
C25_TemplateExpansion ==
    call.op = "applyPortTemplate" =>
        /\ Len(call.result) = Len(call.value)
        /\ \A i \in 1..Len(call.value) :
              call.result[i] =
                  IF call.value[i].t = "ref"
                  THEN IF call.value[i].name \in DOMAIN call.servicePorts
                       THEN IF call.servicePorts[call.value[i].name] \in 1..MAX_PORT
                            THEN piece("num", "", <<>>, call.servicePorts[call.value[i].name])
                            ELSE call.value[i]
                       ELSE call.value[i]
                  ELSE IF ownToken(call.value, i) /\ call.port \in 1..MAX_PORT
                  THEN piece("num", "", <<>>, call.port)
                  ELSE call.value[i]

\* C26: once the close handler of a log socket has run, no capture is
\* started for the socket and no logs frame is sent on it.
C26_ClosedSocketIsQuiet ==
    [][\A r \in Requests :
          (req[r].kind = "logs" /\ req[r].pc = "closed") =>
              /\ req'[r].stamp = req[r].stamp
              /\ req'[r].status = req[r].status]_vars

\* C27: when startWindow returns false it has changed nothing in the
\* session; in every other case its send-keys succeeds, it returns true,
\* and the session then holds exactly one window of the service's name, a
\* fresh one with the command typed into it.
C27_StartWindowOutcome ==
    [][\A r \in Requests :
          steps(r) =>
              /\ (req[r].pc = "paneCheck" /\ req'[r].pc \notin {"paneCheck", "kill"}) =>
                    UNCHANGED <<session, windows>>
              /\ req[r].pc = "sendKeys" =>
                    /\ now' # now
                    /\ windows'[current(req[r])] = <<RunningPane>>]_vars

\* C28: without another request, when stopWindow returns no window of the
\* name exists; and when no window of the name existed, stopWindow returns
\* from its windowExists and the session is as it was.
C28_StopWindowOutcome ==
    [][\A r \in Requests :
          steps(r) =>
              /\ req[r].pc = "stopKill" => windows'[current(req[r])] = <<>>
              /\ (req[r].pc = "stopList" /\ (~session \/ windows[current(req[r])] = <<>>)) =>
                    /\ req'[r].pc \notin {"sendCc", "stopKill"}
                    /\ positions(req'[r], "stopWindowDone", current(req[r])) # {}
                    /\ UNCHANGED <<session, windows>>]_vars

\* A stop request has stopped a service that had a window, and one that
\* had none.
C28_Witness ==
    \E r \in Requests :
        /\ req[r].kind = "stop"
        /\ req[r].pc = "done"
        /\ \E n \in Names :
              /\ positions(req[r], "stopWindowDone", n) # {}
              /\ windows0[n] # <<>>
              /\ windows[n] = <<>>

\* C29: when createDependencyGraph throws, the error is of the first kind,
\* in the order missing dependency target, self-dependency, duplicate
\* dependency entry, cycle, that some service of the list shows.
C29_DefectPriority ==
    (call.op = "createDependencyGraph" /\ call.error # "none") =>
        call.error =
            IF \E i \in 1..Len(services) :
                  \E d \in Range(services[i].dependsOn) : d \notin catalogNames
            THEN "missing"
            ELSE IF \E i \in 1..Len(services) : services[i].name \in Range(services[i].dependsOn)
            THEN "self"
            ELSE IF \E i \in 1..Len(services) :
                       \E j, k \in 1..Len(services[i].dependsOn) :
                          j # k /\ services[i].dependsOn[j] = services[i].dependsOn[k]
            THEN "duplicate"
            ELSE "cycle"

\* startWindow returned to r in this step, with `result`.
returned(r, result) ==
    positions(req'[r], result, current(req[r])) # positions(req[r], result, current(req[r]))

\* C30: a start whose startWindow returned false ends at once, with
\* lastStartedAt as it was in the file and in the runtime map and no
\* detection scheduled; one whose startWindow returned true ends with the
\* time of the start in both, and with detection scheduled exactly for a
\* detect service; and nothing else changes either record.
C30_StampedIffStarted ==
    [][\A r \in Requests :
          steps(r) =>
              IF req[r].pc \in {"idle", "done"}
              THEN UNCHANGED <<lastStartedAt, runtimeLastStartedAt>>
              ELSE
              LET n == current(req[r])
                  ended == positions(req'[r], "startServiceDone", n)
                              # positions(req[r], "startServiceDone", n)
                  wasStarted == positions(req'[r], "startWindowTrue", n) # {}
                  isScheduled == positions(req'[r], "schedulePortDetection", n) # {}
              IN  /\ returned(r, "startWindowFalse") =>
                        /\ ended
                        /\ UNCHANGED <<lastStartedAt, runtimeLastStartedAt>>
                  /\ returned(r, "startWindowTrue") =>
                        /\ ~ended
                        /\ n \in DOMAIN runtimeLastStartedAt'
                        /\ runtimeLastStartedAt'[n] = now
                        /\ req'[r].stamp = now
                  /\ (ended /\ wasStarted) =>
                        /\ lastStartedAt'[n] = req[r].stamp
                        /\ runtimeLastStartedAt'[n] = req[r].stamp
                        /\ isScheduled <=>
                              resolvePortMode(findService(services, n)) = "detect"
                  /\ (ended /\ ~wasStarted) => ~isScheduled
                  /\ \A m \in Names :
                        /\ lastStartedAt'[m] # lastStartedAt[m] => (m = n /\ ended /\ wasStarted)
                        /\ (IF m \in DOMAIN runtimeLastStartedAt
                            THEN runtimeLastStartedAt'[m] # runtimeLastStartedAt[m]
                            ELSE m \in DOMAIN runtimeLastStartedAt')
                              => (m = n /\ returned(r, "startWindowTrue"))]_vars

\* One start request stamped a detect service it started and left alone a
\* service that was already running.
C30_Witness ==
    \E r \in Requests :
        /\ req[r].pc = "done"
        /\ \E n \in Names :
              /\ positions(req[r], "schedulePortDetection", n) # {}
              /\ lastStartedAt[n] > 0
              /\ runtimeLastStartedAt[n] = lastStartedAt[n]
        /\ \E m \in Names :
              /\ positions(req[r], "startWindowFalse", m) # {}
              /\ lastStartedAt[m] = 0
              /\ m \notin DOMAIN runtimeLastStartedAt

\* C39: two services with distinct local names in one compose file get
\* distinct merged names from parseComposeServices.
C39_MergedNamesDistinct ==
    call.op = "parseComposeServices" =>
        \A i, j \in 1..Len(call.raw) :
            call.raw[i].name # call.raw[j].name =>
                call.result[i].name # call.result[j].name

\* C34: two requests that are typing the commands of two distinct
\* registry-mode services type them with distinct resolved ports.
C34_DistinctRegistryPorts ==
    \A r1, r2 \in Requests :
        (/\ r1 # r2
         /\ req[r1].pc = "sendKeys"
         /\ req[r2].pc = "sendKeys"
         /\ current(req[r1]) # current(req[r2])
         /\ resolvePortMode(findService(services, current(req[r1]))) = "registry"
         /\ resolvePortMode(findService(services, current(req[r2]))) = "registry")
            => req[r1].resolvedPort # req[r2].resolvedPort

\* C36: the kill-window of startWindow never removes a window whose pane
\* is alive and runs a command that is no shell.
C36_NoRunningWindowKilled ==
    [][\A r \in Requests :
          (steps(r) /\ req[r].pc = "kill" /\ req[r].kind = "start") =>
              LET n == current(req[r]) IN
              windows'[n] # windows[n] =>
                  \E o \in 1..Len(windows[n]) :
                      /\ windows'[n] = removeAt(windows[n], o)
                      /\ (windows[n][o].dead \/ windows[n][o].cmd \in IDLE_COMMANDS)]_vars

\* C38: when a start request builds the port map for a service, every
\* registry-mode service it transitively depends on has an entry in the
\* registry file, and the map holds that port for it.
C38_DependencyPortsKnown ==
    [][\A r \in Requests :
          (steps(r) /\ req[r].pc = "ports" /\ req[r].kind = "start") =>
              \A d \in transitiveDependencies(current(req[r])) :
                  resolvePortMode(findService(services, d)) = "registry" =>
                      /\ registry.state = "ok"
                      /\ d \in DOMAIN registry.ports
                      /\ req'[r].servicePorts[d] = registry.ports[d]]_vars

\* C35: the write of a detected-port persistence puts no service into the
\* configuration file that the file does not hold at that moment, so a
\* service that a DELETE removed meanwhile stays removed.
C35_DeletedStaysDeleted ==
    [][\A r \in Requests :
          (steps(r) /\ req[r].kind = "detect") =>
              namesOf(services') \subseteq namesOf(services)]_vars

\* C31: every detection task ends: with the port it detected, with no port
\* once its rounds are spent, or with its failure logged; and no step of a
\* task touches a request, the configuration file or the runtime ports
\* other than by recording the port it detected.
C31_DetectionEndsQuietly ==
    /\ \A r \in Requests :
          (req[r].kind = "detect" /\ req[r].pc # "done") ~> (req[r].pc = "done")
    /\ [][\A r \in Requests :
             (steps(r) /\ req[r].kind = "detect") =>
                 /\ \A q \in Requests \ {r} : req'[q] = req[q]
                 /\ req'[r].pc = "done" =>
                       \/ req[r].name \in DOMAIN runtimeDetectedPorts'
                             /\ runtimeDetectedPorts'[req[r].name] = DEFAULT_REGISTRY_PORT + 1
                       \/ req[r].stamp + 1 = PollBudget /\ req'[r].calls = <<>>
                       \/ positions(req'[r], "loggerError", req[r].name) # {}
                 /\ req[r].pc # "persistWrite" => UNCHANGED <<services, lastStartedAt>>
                 /\ runtimeDetectedPorts' # runtimeDetectedPorts =>
                       runtimeDetectedPorts' = withPort(runtimeDetectedPorts, req[r].name,
                                                        DEFAULT_REGISTRY_PORT + 1)]_vars

\* One task ended with its failure logged and the other ran out of rounds
\* without a port.
C31_Witness ==
    \E r, q \in Requests :
        /\ req[r].kind = "detect" /\ req[r].pc = "done"
        /\ positions(req[r], "loggerError", req[r].name) # {}
        /\ req[q].kind = "detect" /\ req[q].pc = "done"
        /\ req[q].calls = <<>>
        /\ runtimeDetectedPorts[req[q].name] # DEFAULT_REGISTRY_PORT + 1

\* sync returns to request r in this step.
syncReturned(r) == steps(r) /\ req'[r].kind = "sync" /\ req'[r].pc = "done"

\* C32: when sync(projects) returns, the registry holds a state for
\* exactly the projects of the list, each with the root the list gives it
\* and with no service loaded from another root.
C32_SyncTracksTheList ==
    [][\A r \in Requests :
          syncReturned(r) =>
              LET projects == req'[r].order IN
              /\ DOMAIN states' = {projects[i].name : i \in 1..Len(projects)}
              /\ \A i \in 1..Len(projects) :
                    IF projects[i].name \notin DOMAIN states' THEN FALSE
                    ELSE /\ states'[projects[i].name].rootPath = projects[i].path
                         /\ \A s \in Range(states'[projects[i].name].services) :
                               s.composePath = projects[i].path]_vars

\* C37: when sync(projects) returns to a request and no compose file has
\* changed since the daemon started, the services the request then gets
\* from getServices hold those of every project of the list whose compose
\* file is valid.
C37_SnapshotIsLoaded ==
    [][\A r \in Requests :
          (syncReturned(r) /\ envLeft = MaxEnv) =>
              \A i \in 1..Len(req'[r].order) :
                  composeFiles[req'[r].order[i].path].content = "valid" =>
                      [name |-> req'[r].order[i].name,
                       composePath |-> req'[r].order[i].path] \in Range(req'[r].config)]_vars

\* The compose file at the root of a state does not load.
loadFails(state) == composeFiles[state.rootPath].content \in {"invalid", "unreadable"}

\* C33: a reload of a project whose compose file does not load, by the
\* watcher's timer or awaited by sync, leaves the project tracked with its
\* watcher and with no service.
C33_FailedLoadEmpties ==
    [][/\ (UNCHANGED req /\ states' # states) =>
             /\ DOMAIN states' = DOMAIN states
             /\ \A n \in DOMAIN states :
                   (states'[n] # states[n] /\ loadFails(states[n])) =>
                       /\ states'[n].services = <<>>
                       /\ states'[n].watcher
                       /\ states'[n].id = states[n].id
       /\ \A r \in Requests :
             (steps(r) /\ req[r].pc = "reload") =>
                 LET n == req[r].order[req[r].idx].name IN
                 IF n \notin DOMAIN states THEN TRUE
                 ELSE (states[n].id = <<r, req[r].idx>> /\ loadFails(states[n])) =>
                         IF n \notin DOMAIN states' THEN FALSE
                         ELSE /\ states'[n].services = <<>>
                              /\ states'[n].watcher
                              /\ states'[n].id = states[n].id]_vars

\* A request got the service of project p from its sync; the file of p was
\* broken afterwards, and the reload left p tracked, watched and empty.
C33_Witness ==
    /\ "p" \in DOMAIN states
    /\ loadFails(states["p"])
    /\ states["p"].mtimeMs = composeFiles[states["p"].rootPath].mtimeMs
    /\ states["p"].services = <<>>
    /\ states["p"].watcher
    /\ \E r \in Requests :
          /\ req[r].pc = "done"
          /\ [name |-> "p", composePath |-> states["p"].rootPath] \in Range(req[r].config)

=============================================================================
